---- MODULE Spec2Model ----
(***************************************************************************)
(* Habit-Tracker: the prediction subsystem (habit statistics, feature      *)
(* engineering, the two base models, the PredictionEngine and the          *)
(* usePredictions hook) as a state machine.                                *)
(*                                                                         *)
(* Numbers.  Dates are whole days (the "YYYY-MM-DD" string of a log is the *)
(* day number it denotes, new Date(date) is UTC midnight of that day),     *)
(* instants are whole hours.  Ratios the code computes in floating point   *)
(* are exact fractions [num, den] in lowest terms; NaN is a value of its   *)
(* own.                                                                    *)
(***************************************************************************)
EXTENDS Integers, Sequences, FiniteSets, TLC

VARIABLES
  habits,       \* Habit[] handed to the library / held by the application
  logs,         \* HabitLog[] handed to the library / held by the application
  nowHours,     \* Date.now(), in hours
  statsOut,     \* result of the last calculateHabitStats call, per habit id
  trainingData, \* result of the last createTrainingData call
  mlSet,        \* the (features, label) samples a caller of the models holds
  logisticRegression,  \* a LogisticRegression instance
  decisionTree, \* a DecisionTree instance
  mlOut,        \* result of the last predict call on one of the two models
  modelState,   \* PredictionEngine.modelState
  performanceReport,  \* PredictionEngine.performanceReport
  trainOut,     \* how the last PredictionEngine.train call ended and the two slices it made
  predictionsOut,     \* result of the last predictForDate call, and whether the engine was trained then
  predictions,  \* usePredictions: the predictions state {today, tomorrow}
  isTraining,   \* usePredictions: the isTraining state
  hookModelState,      \* usePredictions: the modelState state
  lastTrainingDate,    \* usePredictions: the lastTrainingDate state
  pending,      \* trainAndPredict runs waiting at the 100 ms timeout, oldest first
  runOut,       \* how the last trainAndPredict run that passed the timeout ended
  outcomes,     \* the (prediction, actual, probability) triples a caller of ModelEvaluator holds
  metricsOut,   \* result of calculateMetrics, when it was the last call
  aucOut,       \* result of calculateROCAUC, when it was the last call
  evalData,     \* the (features, label) samples handed to the validation functions
  cvOut,        \* result of the last performCrossValidation call
  curveOut,     \* result of the last generateLearningCurve call
  qualityOut,   \* result of the last assessDataQuality call
  stored,       \* localStorage: the item under STORAGE_KEY
  hasWindow,    \* typeof window is not "undefined"
  quotaExceeded,  \* localStorage.setItem throws
  saveOut,      \* the saveData call, when it was the last call to change or try to change the item
  loadOut,      \* the last loadData call since then
  importOut     \* the importData call, when it was the last call to change or try to change the item

vars == <<habits, logs, nowHours, statsOut, trainingData,
          mlSet, logisticRegression, decisionTree, mlOut,
          modelState, performanceReport, trainOut, predictionsOut,
          predictions, isTraining, hookModelState, lastTrainingDate, pending, runOut,
          outcomes, metricsOut, aucOut, evalData, cvOut, curveOut, qualityOut,
          stored, hasWindow, quotaExceeded, saveOut, loadOut, importOut>>
storageVars == <<stored, hasWindow, quotaExceeded, saveOut, loadOut, importOut>>
evalVars == <<outcomes, metricsOut, aucOut, evalData, cvOut, curveOut, qualityOut>>
hookVars == <<predictions, isTraining, hookModelState, lastTrainingDate, pending, runOut>>
engineVars == <<modelState, performanceReport, trainOut, predictionsOut>>
modelVars == <<mlSet, logisticRegression, decisionTree, mlOut>>
dataVars == <<habits, logs, nowHours, statsOut, trainingData>>

\* ------------------------------------------------------------------ bounds
MaxDay == 3        \* log dates range over 1..MaxDay
MaxLogs == 3       \* length of the log array in the statistics specification
MaxSamples == 3    \* samples a caller trains one of the models on
MaxPending == 2    \* trainAndPredict runs waiting at their timeout at one time
MaxOutcomes == 3   \* length of the arrays handed to calculateMetrics / calculateROCAUC

\* --------------------------------------------------------------- constants
HoursPerDay == 24
NoLogSentinel == 999
EngineMaxDepth == 4      \* new DecisionTree(4, 3)
EngineMinSamples == 3
minLogsForML == 10

Undefined == "undefined"   \* an absent mood or weather
UndefinedNum == -1          \* an absent sleepHours, energyLevel or stressLevel

\* ----------------------------------------------------------------- helpers
RECURSIVE GCD(_, _)
GCD(a, b) == IF b = 0 THEN a ELSE GCD(b, a % b)

Abs(x) == IF x < 0 THEN -x ELSE x

\* the fraction n/d (d # 0) in lowest terms with a positive denominator
Frac(n, d) ==
  LET g == GCD(Abs(n), Abs(d))
      s == IF d < 0 THEN -1 ELSE 1
  IN [num |-> (s * n) \div g, den |-> (s * d) \div g]

FracLE(a, b) == a.num * b.den <= b.num * a.den
FracLT(a, b) == a.num * b.den < b.num * a.den
FracAdd(a, b) == Frac(a.num * b.den + b.num * a.den, a.den * b.den)
FracSub(a, b) == Frac(a.num * b.den - b.num * a.den, a.den * b.den)
FracMul(a, b) == Frac(a.num * b.num, a.den * b.den)
FracMin(a, b) == IF FracLE(a, b) THEN a ELSE b
FracMax(a, b) == IF FracLE(a, b) THEN b ELSE a
NaN == [num |-> 0, den |-> 0]
NegInfinity == [num |-> -1, den |-> 0]
IsFinite(x) == x.den # 0
Zero == Frac(0, 1)
One == Frac(1, 1)
Half == Frac(1, 2)

Min(a, b) == IF a <= b THEN a ELSE b
Max(a, b) == IF a >= b THEN a ELSE b

\* Array.prototype.filter
RECURSIVE SelectLogs(_, _)
SelectLogs(s, h) ==
  IF s = <<>> THEN <<>>
  ELSE IF Head(s).habitId = h THEN <<Head(s)>> \o SelectLogs(Tail(s), h)
       ELSE SelectLogs(Tail(s), h)

\* Array.prototype.reverse
Reverse(s) == [i \in 1..Len(s) |-> s[Len(s) + 1 - i]]

\* Array.prototype.sort((a, b) => new Date(b.date) - new Date(a.date)):
\* a stable sort, most recent date first
RECURSIVE InsertByDateDesc(_, _)
InsertByDateDesc(sorted, l) ==
  IF sorted = <<>> THEN <<l>>
  ELSE IF Head(sorted).date >= l.date
       THEN <<Head(sorted)>> \o InsertByDateDesc(Tail(sorted), l)
       ELSE <<l>> \o sorted

RECURSIVE SortByDateDesc(_)
SortByDateDesc(s) ==
  IF s = <<>> THEN <<>>
  ELSE InsertByDateDesc(SortByDateDesc(SubSeq(s, 1, Len(s) - 1)), s[Len(s)])

\* new Date(log.date).getTime(), in hours
DateHours(date) == date * HoursPerDay

\* --------------------------------------------------------- habit-utils.ts
RECURSIVE LeadingCompleted(_)
LeadingCompleted(s) ==
  IF s = <<>> THEN 0
  ELSE IF Head(s).completed THEN 1 + LeadingCompleted(Tail(s)) ELSE 0

\* the loop of lines 331-338: temp is tempStreak, best is longestStreak
RECURSIVE LongestRun(_, _, _)
LongestRun(s, temp, best) ==
  IF s = <<>> THEN best
  ELSE IF Head(s).completed
       THEN LongestRun(Tail(s), temp + 1, Max(best, temp + 1))
       ELSE LongestRun(Tail(s), 0, best)

RECURSIVE CountCompleted(_)
CountCompleted(s) ==
  IF s = <<>> THEN 0
  ELSE (IF Head(s).completed THEN 1 ELSE 0) + CountCompleted(Tail(s))

\* sortedLogs[0] read at line 341, after sortedLogs.reverse() of line 331
\* has reversed the array in place
LastLogRead(sortedDesc) == Reverse(sortedDesc)[1]

calculateHabitStats(habitId, allLogs, now) ==
  LET habitLogs == SelectLogs(allLogs, habitId)
      totalLogs == Len(habitLogs)
      completedCount == CountCompleted(habitLogs)
      sortedLogs == SortByDateDesc(habitLogs)
      reversed == Reverse(sortedLogs)
  IN [habitId |-> habitId,
      totalLogs |-> totalLogs,
      completedLogs |-> completedCount,
      successRate |-> IF totalLogs > 0 THEN Frac(completedCount, totalLogs) ELSE Zero,
      currentStreak |-> LeadingCompleted(sortedLogs),
      longestStreak |-> LongestRun(reversed, 0, 0),
      daysSinceLastLog |->
        IF totalLogs > 0
        THEN (now - DateHours(LastLogRead(sortedLogs).date)) \div HoursPerDay
        ELSE NoLogSentinel]

\* ----------------------------------------------------------- ml-features.ts
\* Math.log1p(x) / Math.log1p(30) for x = 0..31, in millionths (rounded down)
Log1pOver30 ==
  <<0, 201849, 319923, 403698, 468679, 521772, 566662, 605547, 639846, 670528,
    698283, 723621, 746930, 768511, 788602, 807396, 825050, 841695, 857440,
    872377, 886585, 900132, 913076, 925470, 937358, 948779, 959769, 970360,
    980579, 990451, 1000000, 1000000>>

\* Math.log1p(x) / Math.log1p(365) for x = 0..39, in millionths (rounded down)
Log1pOver365 ==
  <<0, 117430, 186122, 234860, 272664, 303552, 329668, 352290, 372244, 390094,
    406241, 420982, 434543, 447098, 458786, 469720, 479991, 489674, 498834,
    507524, 515790, 523671, 531202, 538412, 545328, 551973, 558367, 564528,
    570473, 576216, 581772, 587150, 592364, 597421, 602332, 607105, 611746,
    616264, 620665, 624954>>

\* Math.min(Math.log1p(x) / Math.log1p(30), 1)
StreakScale(x) ==
  IF x >= 30 THEN One ELSE Frac(Log1pOver30[x + 1], 1000000)

\* Math.min(Math.log1p(x) / Math.log1p(365), 1): log1p is NaN below -1 and
\* -Infinity at -1
CreatedScale(x) ==
  IF x < -1 THEN NaN
  ELSE IF x = -1 THEN NegInfinity
  ELSE IF x >= 365 THEN One
  ELSE Frac(Log1pOver365[x + 1], 1000000)

\* targetDateObj.getDay(), 0 = Sunday; day 0 is a Thursday (the epoch)
GetDay(hours) == ((hours \div HoursPerDay) + 4) % 7

\* the logs of lines 11-13: dated on or before the target, most recent first
RECURSIVE SelectUpTo(_, _)
SelectUpTo(s, targetHours) ==
  IF s = <<>> THEN <<>>
  ELSE IF DateHours(Head(s).date) <= targetHours
       THEN <<Head(s)>> \o SelectUpTo(Tail(s), targetHours)
       ELSE SelectUpTo(Tail(s), targetHours)

\* the logs of a habit that calculateHabitStats is given at line 7
StatsLogs(allLogs, targetHours) == allLogs

\* habit.createdAt.getTime() of line 17 raises a TypeError when createdAt is
\* not a Date object (a habit that was parsed from JSON and not revived)
extractFeaturesThrows(habit) == ~habit.createdAt.isDate

\* the record extractFeatures returns when it does not throw
extractFeatures(habit, allLogs, targetHours, now) ==
  LET stats == calculateHabitStats(habit.id, StatsLogs(allLogs, targetHours), now)
      habitLogs == SelectLogs(allLogs, habit.id)
      upTo == SortByDateDesc(SelectUpTo(habitLogs, targetHours))
      hasRecent == upTo # <<>>
      recentLog == upTo[1]
      dow == GetDay(targetHours)
  IN [habitId |-> habit.id,
      dayOfWeek |-> dow,
      timeOfDay |-> habit.preferredTime,
      mood |-> IF hasRecent THEN recentLog.mood ELSE Undefined,
      sleepHours |-> IF hasRecent THEN recentLog.sleepHours ELSE Undefined,
      energyLevel |-> IF hasRecent THEN recentLog.energyLevel ELSE Undefined,
      stressLevel |-> IF hasRecent THEN recentLog.stressLevel ELSE Undefined,
      weather |-> IF hasRecent THEN recentLog.weather ELSE Undefined,
      streak |-> stats.currentStreak,
      daysSinceLastLog |-> stats.daysSinceLastLog,
      successRate |-> stats.successRate,
      category |-> habit.category,
      daysSinceCreated |-> (targetHours - habit.createdAt.time) \div HoursPerDay,
      isWeekend |-> dow = 0 \/ dow = 6]

OneHot(value, slots) == [i \in 1..Len(slots) |-> IF value = slots[i] THEN One ELSE Zero]

MoodValue(mood) ==
  CASE mood = "poor" -> Zero
    [] mood = "okay" -> Frac(33, 100)
    [] mood = "good" -> Frac(67, 100)
    [] mood = "great" -> One
    [] OTHER -> Half

\* a value is falsy when it is undefined or the number 0
Falsy(v) == v = UndefinedNum \/ v = 0

\* reduce((hash, char) => ((hash << 5) - hash + char.charCodeAt(0)) & 0xffff, 0)
RECURSIVE CategoryHash(_, _)
CategoryHash(chars, hash) ==
  IF chars = <<>> THEN hash
  ELSE CategoryHash(Tail(chars), (hash * 32 - hash + Head(chars)) % 65536)

encodeFeatures(f) ==
  <<Frac(f.dayOfWeek, 6)>>
  \o OneHot(f.timeOfDay, <<"morning", "afternoon", "evening", "anytime">>)
  \o <<MoodValue(f.mood),
       IF Falsy(f.sleepHours) THEN Frac(3, 4) ELSE FracMin(Frac(f.sleepHours, 10), One),
       IF Falsy(f.energyLevel) THEN Half ELSE Frac(f.energyLevel - 1, 4),
       IF Falsy(f.stressLevel) THEN Half ELSE FracSub(One, Frac(f.stressLevel - 1, 4))>>
  \o OneHot(f.weather, <<"sunny", "cloudy", "rainy", "snowy">>)
  \o <<StreakScale(f.streak),
       FracMin(Frac(f.daysSinceLastLog, 30), One),
       f.successRate,
       Frac(CategoryHash(f.category, 0) % 100, 100),
       CreatedScale(f.daysSinceCreated),
       IF f.isWeekend THEN One ELSE Zero>>

\* the positions of the encoded vector (featureNames, lines 146-151)
StreakIdx == 14
DaysSinceIdx == 15
SuccessRateIdx == 16

TypeError == [threw |-> TRUE, samples |-> <<>>]

\* one training sample per log of the habit, in the order of the log array
RECURSIVE HabitSamples(_, _, _, _)
HabitSamples(habit, habitLogs, allLogs, now) ==
  IF habitLogs = <<>> THEN [threw |-> FALSE, samples |-> <<>>]
  ELSE IF extractFeaturesThrows(habit) THEN TypeError
  ELSE LET log == Head(habitLogs)
           features == extractFeatures(habit, allLogs, DateHours(log.date), now)
           rest == HabitSamples(habit, Tail(habitLogs), allLogs, now)
       IN [threw |-> FALSE,
           samples |-> <<[features |-> encodeFeatures(features),
                          label |-> IF log.completed THEN 1 ELSE 0,
                          meta |-> [habitId |-> habit.id, date |-> log.date]]>>
                       \o rest.samples]

\* the result is a sequence of samples: features[i], labels[i] and
\* metadata[i] of the code are the three fields of sample i; threw tells
\* that the call raised an exception instead of returning
RECURSIVE createTrainingData(_, _, _)
createTrainingData(hs, allLogs, now) ==
  IF hs = <<>> THEN [threw |-> FALSE, samples |-> <<>>]
  ELSE LET first == HabitSamples(Head(hs), SelectLogs(allLogs, Head(hs).id), allLogs, now)
       IN IF first.threw THEN TypeError
          ELSE LET rest == createTrainingData(Tail(hs), allLogs, now)
               IN IF rest.threw THEN TypeError
                  ELSE [threw |-> FALSE, samples |-> first.samples \o rest.samples]


\* ------------------------------------------------------------- ml-models.ts
\* LogisticRegression.  The fitted weights are real numbers that 500 steps of
\* gradient descent produce; the model keeps their number (the length of the
\* weights array) and not their values: Fitted stands for a fitted weight.
Fitted == "w"

NewLogisticRegression == [weights |-> <<>>]

\* train (lines 16-45); sampleSet is a sequence of [x, y]
LRTrainOnEmpty(lr) == lr
LRTrain(lr, sampleSet) ==
  IF sampleSet = <<>> THEN LRTrainOnEmpty(lr)
  ELSE [weights |-> [j \in 1..Len(sampleSet[1].x) |-> Fitted]]

\* predict (lines 47-50) reads weights[i] for every position i of the input:
\* a position without a weight gives undefined, the sum is NaN and so is the
\* sigmoid.  With a weight for every position the result is sigmoid(z), a
\* number of [0, 1] the model does not compute: InUnit stands for it.
InUnit == [num |-> 1, den |-> -1]
LRPredict(lr, x) ==
  IF Len(x) > Len(lr.weights) THEN NaN
  ELSE IF Len(x) = 0 /\ Len(lr.weights) = 0 THEN Half  \* sigmoid(bias), bias = 0
  ELSE InUnit

\* DecisionTree
Null == [isNull |-> TRUE]
Leaf(p) == [isLeaf |-> TRUE, prediction |-> p]

\* The tree is a function of the samples of the last effective train call:
\* the instance keeps those samples (fit) and DTRoot is the root built from
\* them; without such a call root is null.
NewDecisionTree(maxDepth, minSamples) ==
  [maxDepth |-> maxDepth, minSamples |-> minSamples, fit |-> <<>>]

RECURSIVE SumLabels(_)
SumLabels(ss) == IF ss = <<>> THEN 0 ELSE Head(ss).y + SumLabels(Tail(ss))

\* labels.reduce((sum, label) => sum + label, 0) / labels.length
MeanLabel(ss) == Frac(SumLabels(ss), Len(ss))

\* calculateGini (lines 73-93), labels in {0, 1}
calculateGini(ss) ==
  IF ss = <<>> THEN Zero
  ELSE LET n == Len(ss)
           ones == SumLabels(ss)
       IN Frac(n * n - ones * ones - (n - ones) * (n - ones), n * n)

RECURSIVE InsertAsc(_, _)
InsertAsc(sorted, v) ==
  IF sorted = <<>> THEN <<v>>
  ELSE IF FracLE(Head(sorted), v) THEN <<Head(sorted)>> \o InsertAsc(Tail(sorted), v)
       ELSE <<v>> \o sorted

RECURSIVE SortAsc(_)
SortAsc(s) ==
  IF s = <<>> THEN <<>>
  ELSE InsertAsc(SortAsc(SubSeq(s, 1, Len(s) - 1)), s[Len(s)])

\* feature[featureIndex] <= threshold; a missing position is undefined and
\* the comparison is false
GoesLeft(x, featureIndex, threshold) ==
  featureIndex <= Len(x) /\ FracLE(x[featureIndex], threshold)

RECURSIVE SelectSide(_, _, _, _)
SelectSide(ss, featureIndex, threshold, left) ==
  IF ss = <<>> THEN <<>>
  ELSE IF GoesLeft(Head(ss).x, featureIndex, threshold) = left
       THEN <<Head(ss)>> \o SelectSide(Tail(ss), featureIndex, threshold, left)
       ELSE SelectSide(Tail(ss), featureIndex, threshold, left)

NoSplit == [featureIndex |-> 0, threshold |-> Zero, gini |-> One, found |-> FALSE]

\* the candidate of lines 113-134: the midpoint of two neighbours of the
\* sorted column, and the weighted Gini impurity of the split it makes
Candidate(ss, featureIndex, values, i) ==
  LET threshold == FracMul(FracAdd(values[i], values[i + 1]), Half)
      l == SelectSide(ss, featureIndex, threshold, TRUE)
      r == SelectSide(ss, featureIndex, threshold, FALSE)
  IN [featureIndex |-> featureIndex, threshold |-> threshold,
      valid |-> l # <<>> /\ r # <<>>,
      gini |-> FracMul(FracAdd(FracMul(Frac(Len(l), 1), calculateGini(l)),
                               FracMul(Frac(Len(r), 1), calculateGini(r))),
                       Frac(1, Len(ss)))]

\* the two nested loops of findBestSplit (lines 109-142), from feature
\* featureIndex and position i on, with the best split found so far
Column(ss, featureIndex) == SortAsc([k \in 1..Len(ss) |-> ss[k].x[featureIndex]])

RECURSIVE ScanSplits(_, _, _, _, _)
ScanSplits(ss, featureIndex, values, i, best) ==
  LET numFeatures == Len(ss[1].x)
  IN IF featureIndex > numFeatures THEN best
     ELSE IF i > Len(ss) - 1
          THEN IF featureIndex = numFeatures THEN best
               ELSE ScanSplits(ss, featureIndex + 1, Column(ss, featureIndex + 1), 1, best)
     ELSE LET c == Candidate(ss, featureIndex, values, i)
          IN IF c.valid /\ (~best.found \/ FracLT(c.gini, best.gini))
             THEN ScanSplits(ss, featureIndex, values, i + 1,
                             [featureIndex |-> c.featureIndex, threshold |-> c.threshold,
                              gini |-> c.gini, found |-> TRUE])
             ELSE ScanSplits(ss, featureIndex, values, i + 1, best)

findBestSplit(ss) ==
  IF Len(ss[1].x) = 0 THEN NoSplit ELSE ScanSplits(ss, 1, Column(ss, 1), 1, NoSplit)

\* A variant of the test new Set(labels).size === 1 that never holds.
SingleClass_Never(ss) == FALSE

SingleClass(ss) == \A i \in 1..Len(ss) : ss[i].y = ss[1].y

\* buildTree (lines 153-190)
RECURSIVE buildTree(_, _, _, _)
buildTree(ss, depth, maxDepth, minSamples) ==
  IF depth >= maxDepth \/ Len(ss) < minSamples \/ SingleClass(ss)
  THEN Leaf(MeanLabel(ss))
  ELSE LET bestSplit == findBestSplit(ss)
       IN IF ~bestSplit.found THEN Leaf(MeanLabel(ss))
          ELSE [isLeaf |-> FALSE,
                featureIndex |-> bestSplit.featureIndex,
                threshold |-> bestSplit.threshold,
                left |-> buildTree(SelectSide(ss, bestSplit.featureIndex, bestSplit.threshold, TRUE),
                                   depth + 1, maxDepth, minSamples),
                right |-> buildTree(SelectSide(ss, bestSplit.featureIndex, bestSplit.threshold, FALSE),
                                    depth + 1, maxDepth, minSamples)]

\* train (lines 192-195)
DTTrain(dt, sampleSet) ==
  IF sampleSet = <<>> THEN dt ELSE [dt EXCEPT !.fit = sampleSet]

\* this.root
DTRoot(dt) ==
  IF dt.fit = <<>> THEN Null ELSE buildTree(dt.fit, 0, dt.maxDepth, dt.minSamples)

\* the leaf the loop of lines 202-212 stops at
RECURSIVE LeafFor(_, _)
LeafFor(node, x) ==
  IF node.isLeaf THEN node
  ELSE IF GoesLeft(x, node.featureIndex, node.threshold) THEN LeafFor(node.left, x)
       ELSE LeafFor(node.right, x)

\* node.prediction || 0.5 (line 214)
OrHalf(p) == IF p = Zero \/ p = NaN THEN Half ELSE p

NoTreeValue_Zero == Zero

\* the value predict returns without a tree (line 198)
NoTreeValue == Half

\* predict (lines 197-215)
DTPredictAt(root, x) ==
  IF root = Null THEN NoTreeValue
  ELSE OrHalf(LeafFor(root, x).prediction)

DTPredict(dt, x) == DTPredictAt(DTRoot(dt), x)


\* ------------------------------------------------------ prediction-engine.ts
NoDate == -1   \* trainingDate is undefined

Untrained(totalSamples) ==
  [isTrained |-> FALSE, totalSamples |-> totalSamples, trainingDate |-> NoDate]

NullReport == [isNull |-> TRUE, totalSamples |-> 0, positive |-> 0, negative |-> 0]

\* Math.floor(features.length * 0.8)
SplitIndex(n) == (n * 8) \div 10

\* the rows of the training set as the (features, label) pairs the models see
AsSampleSet(samples) == [i \in 1..Len(samples) |-> [x |-> samples[i].features, y |-> samples[i].label]]

RECURSIVE CountLabel(_, _)
CountLabel(samples, l) ==
  IF samples = <<>> THEN 0
  ELSE (IF Head(samples).label = l THEN 1 ELSE 0) + CountLabel(Tail(samples), l)

\* the part of the report the model keeps: dataQuality.totalSamples and
\* dataQuality.classBalance (assessDataQuality, model-evaluation lines 237-250)
ReportOf(samples) ==
  [isNull |-> FALSE, totalSamples |-> Len(samples),
   positive |-> CountLabel(samples, 1), negative |-> CountLabel(samples, 0)]

\* the statements of the try block (lines 42-108) raise no exception on a
\* training set that createTrainingData has returned
TryBlockThrows(samples) == FALSE

\* train (lines 28-115): the engine after the call and how the call ended
train(lr, dt, state, report, hs, ls, now) ==
  LET same == [logisticRegression |-> lr, decisionTree |-> dt,
               modelState |-> state, performanceReport |-> report,
               threw |-> FALSE, nSamples |-> 0,
               trainSamples |-> <<>>, testSamples |-> <<>>]
  IN IF Len(ls) < minLogsForML
     THEN [same EXCEPT !.modelState = Untrained(Len(ls))]
     ELSE LET td == createTrainingData(hs, ls, now)
          IN IF td.threw THEN [same EXCEPT !.threw = TRUE]
             ELSE IF td.samples = <<>> THEN [same EXCEPT !.modelState = Untrained(0)]
             ELSE LET n == Len(td.samples)
                      trainSlice == AsSampleSet(SubSeq(td.samples, 1, SplitIndex(n)))
                      fitted == [same EXCEPT !.logisticRegression = LRTrain(lr, trainSlice),
                                             !.decisionTree = DTTrain(dt, trainSlice),
                                             !.nSamples = n,
                                             !.trainSamples = SubSeq(td.samples, 1, SplitIndex(n)),
                                             !.testSamples = SubSeq(td.samples, SplitIndex(n) + 1, n)]
                  IN IF TryBlockThrows(td.samples)
                     THEN [fitted EXCEPT !.modelState = Untrained(n)]
                     ELSE [fitted EXCEPT
                             !.performanceReport = ReportOf(td.samples),
                             !.modelState = [isTrained |-> TRUE, totalSamples |-> n,
                                             trainingDate |-> now]]

\* Math.max(0, Math.min(1, probability)) of line 135
Clamp(p) == FracMax(Zero, FracMin(One, p))

HeuristicPrefix == "Heuristic prediction: "

\* generateHeuristicPrediction (lines 117-154)
generateHeuristicPrediction(habit, ls, now) ==
  LET stats == calculateHabitStats(habit.id, ls, now)
      base == FracAdd(Half, FracMul(FracSub(stats.successRate, Half), Frac(4, 10)))
      streakBonus == FracMul(FracMin(Frac(stats.currentStreak, 7), One), Frac(3, 10))
      recencyPenalty == FracMul(FracMin(Frac(stats.daysSinceLastLog, 7), One), Frac(3, 10))
      probability == Clamp(FracSub(FracAdd(base, streakBonus), recencyPenalty))
  IN [habitId |-> habit.id,
      habitName |-> habit.name,
      category |-> habit.category,
      probability |-> probability,
      confidence |-> IF FracLT(Frac(7, 10), probability) THEN "high"
                     ELSE IF FracLT(Frac(4, 10), probability) THEN "medium" ELSE "low",
      explanation |-> <<HeuristicPrefix>>
         \o (IF FracLT(Frac(7, 10), stats.successRate) THEN <<"Good track record. ">> ELSE <<>>)
         \o (IF stats.currentStreak > 3 THEN <<"Strong current streak. ">> ELSE <<>>)
         \o (IF stats.daysSinceLastLog > 3 THEN <<"Haven't logged recently. ">> ELSE <<>>),
      streak |-> stats.currentStreak,
      successRate |-> stats.successRate]

\* habits.filter(h => h.isActive)
RECURSIVE ActiveHabits(_)
ActiveHabits(hs) ==
  IF hs = <<>> THEN <<>>
  ELSE IF Head(hs).isActive THEN <<Head(hs)>> \o ActiveHabits(Tail(hs))
       ELSE ActiveHabits(Tail(hs))

RECURSIVE InsertByProbability_Unstable(_, _)
InsertByProbability_Unstable(sorted, p) ==
  IF sorted = <<>> THEN <<p>>
  ELSE IF FracLT(p.probability, Head(sorted).probability)
       THEN <<Head(sorted)>> \o InsertByProbability_Unstable(Tail(sorted), p)
       ELSE <<p>> \o sorted

\* sort((a, b) => b.probability - a.probability): Array.prototype.sort is
\* stable, an element goes behind the elements that compare equal to it
RECURSIVE InsertByProbability(_, _)
InsertByProbability(sorted, p) ==
  IF sorted = <<>> THEN <<p>>
  ELSE IF FracLE(p.probability, Head(sorted).probability)
       THEN <<Head(sorted)>> \o InsertByProbability(Tail(sorted), p)
       ELSE <<p>> \o sorted

RECURSIVE SortByProbability(_)
SortByProbability(ps) ==
  IF ps = <<>> THEN <<>>
  ELSE InsertByProbability(SortByProbability(SubSeq(ps, 1, Len(ps) - 1)), ps[Len(ps)])

\* the prediction predictForDate computes for one habit (lines 160-163)
PredictionFor(habit, ls, targetHours, now, state) ==
  generateHeuristicPrediction(habit, ls, now)

\* predictForDate (lines 157-165)
predictForDate(hs, ls, targetHours, now, state) ==
  LET active == ActiveHabits(hs)
  IN SortByProbability([i \in 1..Len(active) |->
                          PredictionFor(active[i], ls, targetHours, now, state)])

\* slice(0, count)
Slice(s, count) == SubSeq(s, 1, Min(count, Len(s)))

\* getTopPredictions (lines 167-182)
getTopPredictions(hs, ls, count, now, state) ==
  [today |-> Slice(predictForDate(hs, ls, now, now, state), count),
   tomorrow |-> Slice(predictForDate(hs, ls, now + HoursPerDay, now, state), count)]

\* ------------------------------------------------------ model-evaluation.ts
PosInfinity == [num |-> 1, den |-> 0]

\* a / b on numbers: 0 / 0 is NaN, x / 0 is an infinity
FracDiv(a, b) ==
  IF ~IsFinite(a) \/ ~IsFinite(b) THEN NaN
  ELSE IF b.num = 0
       THEN (IF a.num = 0 THEN NaN ELSE IF a.num > 0 THEN PosInfinity ELSE NegInfinity)
       ELSE Frac(a.num * b.den, a.den * b.num)

Num(n) == Frac(n, 1)

\* x || 0: NaN and 0 are falsy
OrZero(x) == IF x = NaN \/ x = Zero THEN Zero ELSE x

\* a + b and a * b where an operand may be NaN
JsAdd(a, b) == IF ~IsFinite(a) \/ ~IsFinite(b) THEN NaN ELSE FracAdd(a, b)
JsMul(a, b) == IF ~IsFinite(a) \/ ~IsFinite(b) THEN NaN ELSE FracMul(a, b)

\* a > b: false when an operand is NaN
JsGreater(a, b) == IsFinite(a) /\ IsFinite(b) /\ FracLT(b, a)

RECURSIVE CountPairs_AnyActual(_, _, _, _)
CountPairs_AnyActual(preds, actuals, p, a) ==
  IF preds = <<>> THEN 0
  ELSE (IF Head(preds) = p THEN 1 ELSE 0)
       + CountPairs_AnyActual(Tail(preds), IF actuals = <<>> THEN <<>> ELSE Tail(actuals), p, a)

\* predictions.reduce((sum, pred, i) => sum + (pred === p && actuals[i] === a ? 1 : 0), 0)
RECURSIVE CountPairs(_, _, _, _)
CountPairs(preds, actuals, p, a) ==
  IF preds = <<>> THEN 0
  ELSE (IF Head(preds) = p /\ actuals # <<>> /\ Head(actuals) = a THEN 1 ELSE 0)
       + CountPairs(Tail(preds), IF actuals = <<>> THEN <<>> ELSE Tail(actuals), p, a)

\* actuals.filter(a => a === v).length
RECURSIVE CountValue(_, _)
CountValue(s, v) ==
  IF s = <<>> THEN 0 ELSE (IF Head(s) = v THEN 1 ELSE 0) + CountValue(Tail(s), v)

\* 2 * (precision * recall) / (precision + recall) || 0
F1Of(precision, recall) ==
  OrZero(FracDiv(JsMul(Num(2), JsMul(precision, recall)), JsAdd(precision, recall)))

\* (a * positiveSupport + b * negativeSupport) / total
WeightedOf(a, b, positiveSupport, negativeSupport) ==
  FracDiv(JsAdd(JsMul(a, Num(positiveSupport)), JsMul(b, Num(negativeSupport))),
          Num(positiveSupport + negativeSupport))

\* .sort((a, b) => b.prob - a.prob): stable, highest probability first.
\* The probabilities are numbers (no NaN).
RECURSIVE InsertByProbDesc(_, _)
InsertByProbDesc(sorted, e) ==
  IF sorted = <<>> THEN <<e>>
  ELSE IF FracLE(e.prob, Head(sorted).prob)
       THEN <<Head(sorted)>> \o InsertByProbDesc(Tail(sorted), e)
       ELSE <<e>> \o sorted

RECURSIVE SortByProbDesc(_)
SortByProbDesc(s) ==
  IF s = <<>> THEN <<>>
  ELSE InsertByProbDesc(SortByProbDesc(SubSeq(s, 1, Len(s) - 1)), s[Len(s)])

RECURSIVE RocLoop_StepPerSample(_, _, _, _, _, _, _, _, _)
RocLoop_StepPerSample(sorted, i, positives, negatives, tp, fp, tpr, fpr, auc) ==
  IF i > Len(sorted) THEN auc
  ELSE LET tp1 == IF sorted[i].actual = 1 THEN tp + 1 ELSE tp
           fp1 == IF sorted[i].actual = 1 THEN fp ELSE fp + 1
           newTPR == Frac(tp1, positives)
           newFPR == Frac(fp1, negatives)
       IN RocLoop_StepPerSample(sorted, i + 1, positives, negatives, tp1, fp1, newTPR, newFPR,
                                FracAdd(auc, FracMul(FracMul(FracSub(newFPR, fpr),
                                                             FracAdd(tpr, newTPR)), Half)))

\* the loop of lines 115-130 from position i on
RECURSIVE RocLoop(_, _, _, _, _, _, _, _, _)
RocLoop(sorted, i, positives, negatives, tp, fp, tpr, fpr, auc) ==
  IF i > Len(sorted) THEN auc
  ELSE LET tp1 == IF sorted[i].actual = 1 THEN tp + 1 ELSE tp
           fp1 == IF sorted[i].actual = 1 THEN fp ELSE fp + 1
       IN IF i = Len(sorted) \/ sorted[i].prob # sorted[i + 1].prob
          THEN LET newTPR == Frac(tp1, positives)
                   newFPR == Frac(fp1, negatives)
               IN RocLoop(sorted, i + 1, positives, negatives, tp1, fp1, newTPR, newFPR,
                          FracAdd(auc, FracMul(FracMul(FracSub(newFPR, fpr),
                                                       FracAdd(tpr, newTPR)), Half)))
          ELSE RocLoop(sorted, i + 1, positives, negatives, tp1, fp1, tpr, fpr, auc)

\* calculateROCAUC (lines 98-133); actuals and probabilities of one length
calculateROCAUC(actuals, probabilities) ==
  LET sorted == SortByProbDesc([i \in 1..Len(actuals) |->
                                  [actual |-> actuals[i], prob |-> probabilities[i]]])
      positives == CountValue(actuals, 1)
      negatives == Len(actuals) - positives
  IN IF positives = 0 \/ negatives = 0 THEN Half
     ELSE RocLoop(sorted, 1, positives, negatives, 0, 0, Zero, Zero, Zero)

\* rocAuc stays undefined when the lengths differ
NoRocAuc == [defined |-> FALSE, value |-> Zero]

\* calculateMetrics (lines 41-96)
calculateMetrics(preds, actuals, probabilities) ==
  LET tp == CountPairs(preds, actuals, 1, 1)
      tn == CountPairs(preds, actuals, 0, 0)
      fp == CountPairs(preds, actuals, 1, 0)
      fn == CountPairs(preds, actuals, 0, 1)
      accuracy == FracDiv(Num(tp + tn), Num(tp + tn + fp + fn))
      precision == OrZero(FracDiv(Num(tp), Num(tp + fp)))
      recall == OrZero(FracDiv(Num(tp), Num(tp + fn)))
      f1Score == F1Of(precision, recall)
      negativePrecision == OrZero(FracDiv(Num(tn), Num(tn + fn)))
      negativeRecall == OrZero(FracDiv(Num(tn), Num(tn + fp)))
      negativeF1 == F1Of(negativePrecision, negativeRecall)
      positiveSupport == CountValue(actuals, 1)
      negativeSupport == CountValue(actuals, 0)
  IN [accuracy |-> accuracy, precision |-> precision, recall |-> recall,
      f1Score |-> f1Score,
      confusionMatrix |-> [truePositive |-> tp, trueNegative |-> tn,
                           falsePositive |-> fp, falseNegative |-> fn],
      rocAuc |-> IF Len(probabilities) = Len(actuals)
                 THEN [defined |-> TRUE, value |-> calculateROCAUC(actuals, probabilities)]
                 ELSE NoRocAuc,
      classificationReport |->
        [positive |-> [precision |-> precision, recall |-> recall, f1Score |-> f1Score,
                       support |-> positiveSupport],
         negative |-> [precision |-> negativePrecision, recall |-> negativeRecall,
                       f1Score |-> negativeF1, support |-> negativeSupport],
         macro |-> [precision |-> FracDiv(JsAdd(precision, negativePrecision), Num(2)),
                    recall |-> FracDiv(JsAdd(recall, negativeRecall), Num(2)),
                    f1Score |-> FracDiv(JsAdd(f1Score, negativeF1), Num(2))],
         weighted |-> [precision |-> WeightedOf(precision, negativePrecision,
                                                positiveSupport, negativeSupport),
                       recall |-> WeightedOf(recall, negativeRecall,
                                             positiveSupport, negativeSupport),
                       f1Score |-> WeightedOf(f1Score, negativeF1,
                                              positiveSupport, negativeSupport)]]]

\* what LogisticRegression.predict returns for x: the number oracle gives
\* for x where the model has only InUnit for sigmoid(z)
LRValue(lr, x, oracle) ==
  LET v == LRPredict(lr, x) IN IF v = InUnit THEN oracle[x[1]] ELSE v

\* p > 0.5 ? 1 : 0
Vote(p) == IF JsGreater(p, Half) THEN 1 ELSE 0

\* the models of one fold or one curve point, fitted on trainSet
FitLR(trainSet) == LRTrain(NewLogisticRegression, trainSet)
FitDT(trainSet) == DTTrain(NewDecisionTree(EngineMaxDepth, EngineMinSamples), trainSet)

\* the predictions of the three models for x, root the root of the tree
VotesFor(lr, root, x, oracle) ==
  LET lrv == LRValue(lr, x, oracle)
      dtv == DTPredictAt(root, x)
  IN [logistic |-> Vote(lrv), tree |-> Vote(dtv),
      ensemble |-> Vote(FracDiv(JsAdd(lrv, dtv), Num(2)))]

\* the number of samples of testSet that model which predicts as labelled
RECURSIVE CountCorrect(_, _, _, _, _)
CountCorrect(lr, root, testSet, oracle, which) ==
  IF testSet = <<>> THEN 0
  ELSE (IF VotesFor(lr, root, Head(testSet).x, oracle)[which] = Head(testSet).y THEN 1 ELSE 0)
       + CountCorrect(lr, root, Tail(testSet), oracle, which)

\* correct / testSet.length
ScoreOf(trainSet, testSet, oracle, which) ==
  FracDiv(Num(CountCorrect(FitLR(trainSet), DTRoot(FitDT(trainSet)), testSet, oracle, which)),
          Num(Len(testSet)))

\* testStart and testEnd of a fold counted from 0 (lines 148-149)
TestStart(n, folds, fold) == fold * (n \div folds)

\* A variant of TestEnd whose last fold ends like the others.
TestEnd_NoRemainder(n, folds, fold) == TestStart(n, folds, fold) + (n \div folds)

TestEnd(n, folds, fold) ==
  IF fold = folds - 1 THEN n ELSE TestStart(n, folds, fold) + (n \div folds)

\* features.slice(testStart, testEnd) with its labels (lines 151-152)
TestSlice(samples, folds, fold) ==
  SubSeq(samples, TestStart(Len(samples), folds, fold) + 1, TestEnd(Len(samples), folds, fold))

\* [...features.slice(0, testStart), ...features.slice(testEnd)] (lines 153-154)
TrainSlice(samples, folds, fold) ==
  SubSeq(samples, 1, TestStart(Len(samples), folds, fold))
    \o SubSeq(samples, TestEnd(Len(samples), folds, fold) + 1, Len(samples))

\* one iteration of the loop of lines 146-177, fold counted from 0
FoldScore(samples, folds, fold, oracle, which) ==
  ScoreOf(TrainSlice(samples, folds, fold), TestSlice(samples, folds, fold), oracle, which)

\* performCrossValidation (lines 135-182)
performCrossValidation(samples, folds, oracle) ==
  [which \in {"logistic", "tree", "ensemble"} |->
     [f \in 1..folds |-> FoldScore(samples, folds, f - 1, oracle, which)]]

\* trainSizes = [0.1, 0.2, 0.4, 0.6, 0.8, 1.0]
DefaultTrainSizes == <<Frac(1, 10), Frac(1, 5), Frac(2, 5), Frac(3, 5), Frac(4, 5), One>>

\* if (sampleSize < 10) continue
MinCurveSamples == 10

\* A variant of FloorOf that rounds up.
FloorOf_Ceiling(n, size) == (n * size.num + size.den - 1) \div size.den

\* Math.floor(n * size)
FloorOf(n, size) == (n * size.num) \div size.den

\* generateLearningCurve (lines 184-235)
RECURSIVE generateLearningCurve(_, _, _)
generateLearningCurve(samples, trainSizes, oracle) ==
  IF trainSizes = <<>> THEN <<>>
  ELSE LET sampleSize == FloorOf(Len(samples), Head(trainSizes))
           splitIndex == FloorOf(sampleSize, Frac(4, 5))
           trainSet == SubSeq(samples, 1, splitIndex)
           valSet == SubSeq(samples, splitIndex + 1, sampleSize)
           rest == generateLearningCurve(samples, Tail(trainSizes), oracle)
       IN IF sampleSize < MinCurveSamples THEN rest
          ELSE IF trainSet = <<>> \/ valSet = <<>> THEN rest
          ELSE <<[trainSize |-> sampleSize,
                  trainScore |-> ScoreOf(trainSet, trainSet, oracle, "ensemble"),
                  valScore |-> ScoreOf(trainSet, valSet, oracle, "ensemble")]>> \o rest

\* the values of positions 5..12 of the code's vectors (6..13 here, where
\* positions start at 1) that are the number 0.5
RECURSIVE CountHalves(_, _)
CountHalves(x, i) ==
  IF i > 13 THEN 0
  ELSE (IF x[i] = Half THEN 1 ELSE 0) + CountHalves(x, i + 1)

RECURSIVE MissingCount(_)
MissingCount(samples) ==
  IF samples = <<>> THEN 0
  ELSE CountHalves(Head(samples).features, 6) + MissingCount(Tail(samples))

\* the numbers of a column as integers over their common denominator
RECURSIVE CommonDen(_)
CommonDen(column) ==
  IF column = <<>> THEN 1
  ELSE LET rest == CommonDen(Tail(column))
           d == Head(column).den
       IN (rest \div GCD(rest, d)) * d

Scaled(column) ==
  [i \in 1..Len(column) |-> column[i].num * (CommonDen(column) \div column[i].den)]

\* successRates.sort((a, b) => a - b) (line 267)
RECURSIVE InsertNumber(_, _)
InsertNumber(sorted, v) ==
  IF sorted = <<>> THEN <<v>>
  ELSE IF Head(sorted) <= v THEN <<Head(sorted)>> \o InsertNumber(Tail(sorted), v)
       ELSE <<v>> \o sorted

RECURSIVE SortNumbers(_)
SortNumbers(s) ==
  IF s = <<>> THEN <<>>
  ELSE InsertNumber(SortNumbers(SubSeq(s, 1, Len(s) - 1)), s[Len(s)])

\* sr < q1 - 1.5 * iqr || sr > q3 + 1.5 * iqr (line 275), doubled
IsOutlier(sr, q1, q3) ==
  \/ 2 * sr < 2 * q1 - 3 * (q3 - q1)
  \/ 2 * sr > 2 * q3 + 3 * (q3 - q1)

RECURSIVE CountOutliers(_, _, _)
CountOutliers(sorted, q1, q3) ==
  IF sorted = <<>> THEN 0
  ELSE (IF IsOutlier(Head(sorted), q1, q3) THEN 1 ELSE 0)
       + CountOutliers(Tail(sorted), q1, q3)

\* the 1.5 x IQR rule of lines 266-276 on a column of finite numbers: the
\* number of values outside the fences over the number of values
OutlierRate(column) ==
  LET sorted == SortNumbers(Scaled(column))
      n == Len(sorted)
      q1 == sorted[(n \div 4) + 1]
      q3 == sorted[((3 * n) \div 4) + 1]
  IN Frac(CountOutliers(sorted, q1, q3), n)

\* f[f.length - 6] (line 266), as a position that starts at 1
OutlierColumnIdx(x) == Len(x) - 6 + 1

\* assessDataQuality (lines 237-284) on the result of createTrainingData
assessDataQuality(td) ==
  IF td.threw THEN [threw |-> TRUE, totalSamples |-> 0,
                    classBalance |-> [positive |-> 0, negative |-> 0],
                    missingValueRate |-> Zero, outlierRate |-> Zero]
  ELSE IF td.samples = <<>>
  THEN [threw |-> FALSE, totalSamples |-> 0,
        classBalance |-> [positive |-> 0, negative |-> 0],
        missingValueRate |-> Zero, outlierRate |-> Zero]
  ELSE LET n == Len(td.samples)
           positive == CountLabel(td.samples, 1)
       IN [threw |-> FALSE, totalSamples |-> n,
           classBalance |-> [positive |-> positive, negative |-> n - positive],
           missingValueRate |-> Frac(MissingCount(td.samples), 8 * n),
           outlierRate |-> OutlierRate([i \in 1..n |->
                             td.samples[i].features[OutlierColumnIdx(td.samples[i].features)]])]

\* ------------------------------------------------- validation.ts, storage.ts
\* A date-like value is [isDate, time]: a Date object (isDate) or the string
\* JSON holds for it, of the instant time; InvalidTime is the time of an
\* Invalid Date and of a string that is no date.
InvalidTime == -1

\* z.date()
IsValidDate(d) == d.isDate /\ d.time # InvalidTime
\* z.string().or(z.date())
IsStringOrDate(d) == ~d.isDate \/ IsValidDate(d)
\* Date.prototype.toJSON, called by JSON.stringify
ToIsoString(d) == [isDate |-> FALSE, time |-> d.time]
\* new Date(value)
NewDate(d) == [isDate |-> TRUE, time |-> d.time]

PreferredTimes == {"morning", "afternoon", "evening", "anytime"}
Moods == {"great", "good", "okay", "poor"}
HabitKeys == {"id", "name", "category", "preferredTime", "createdAt", "isActive"}
LogKeys == {"id", "habitId", "date", "completed", "loggedAt"}
AppDataKeys == {"habits", "logs", "hasCompletedOnboarding"}

\* An object is a record of its values with has, the set of the keys it
\* holds; the value of a key it does not hold is of no account.  A string is
\* [text, length, latin1]; a log date is the day number of a YYYY-MM-DD
\* string, MalformedDay for a string in another format.
MalformedDay == 0

\* z.object strips the keys the schema does not list
StripHabit(h) == [h EXCEPT !.has = h.has \cap HabitKeys]
StripLog(l) == [l EXCEPT !.has = l.has \cap (LogKeys \cup {"mood"})]

\* HabitSchema (validation.ts lines 4-13)
HabitSchemaAccepts(h) ==
  /\ HabitKeys \subseteq h.has
  /\ h.id # ""
  /\ h.name.length >= 1 /\ h.name.length <= 100
  /\ h.category.length >= 1 /\ h.category.length <= 50
  /\ h.preferredTime \in PreferredTimes
  /\ IsValidDate(h.createdAt)

\* HabitLogSchema (lines 16-23)
HabitLogSchemaAccepts(l) ==
  /\ LogKeys \subseteq l.has
  /\ l.id # "" /\ l.habitId # ""
  /\ l.date # MalformedDay
  /\ "mood" \in l.has => l.mood \in Moods
  /\ IsValidDate(l.loggedAt)

\* the habit and log objects of ImportDataSchema (lines 41-56)
ImportHabitAccepts(h) ==
  /\ HabitKeys \subseteq h.has
  /\ h.preferredTime \in PreferredTimes
  /\ IsStringOrDate(h.createdAt)

ImportLogAccepts(l) ==
  /\ LogKeys \subseteq l.has
  /\ "mood" \in l.has => l.mood \in Moods
  /\ IsStringOrDate(l.loggedAt)

\* the value of lastTrainingDate in an object that has none
NoDateValue == [isDate |-> FALSE, time |-> InvalidTime]

\* const defaultData (storage.ts lines 8-12)
defaultData ==
  [has |-> AppDataKeys, habits |-> <<>>, logs |-> <<>>,
   hasCompletedOnboarding |-> FALSE, lastTrainingDate |-> NoDateValue]

\* .default([]) and .default(false) for a key the object does not hold
Defaulted(v) ==
  [v EXCEPT !.has = v.has \cup AppDataKeys,
            !.habits = IF "habits" \in v.has THEN v.habits ELSE <<>>,
            !.logs = IF "logs" \in v.has THEN v.logs ELSE <<>>,
            !.hasCompletedOnboarding =
               IF "hasCompletedOnboarding" \in v.has
               THEN v.hasCompletedOnboarding ELSE FALSE]

StripEach(d) ==
  [d EXCEPT !.habits = [i \in 1..Len(d.habits) |-> StripHabit(d.habits[i])],
            !.logs = [i \in 1..Len(d.logs) |-> StripLog(d.logs[i])]]

\* validateAppData: AppDataSchema.safeParse (lines 26-31, 76-78)
validateAppData(v) ==
  LET d == Defaulted(v)
  IN [success |-> /\ \A i \in 1..Len(d.habits) : HabitSchemaAccepts(d.habits[i])
                  /\ \A i \in 1..Len(d.logs) : HabitLogSchemaAccepts(d.logs[i])
                  /\ "lastTrainingDate" \in v.has => IsValidDate(v.lastTrainingDate),
      data |-> [StripEach(d) EXCEPT !.has = d.has \cap (AppDataKeys \cup {"lastTrainingDate"})]]

\* validateImportData: ImportDataSchema.safeParse (lines 40-58, 80-82)
validateImportData(v) ==
  LET d == Defaulted(v)
  IN [success |-> /\ \A i \in 1..Len(d.habits) : ImportHabitAccepts(d.habits[i])
                  /\ \A i \in 1..Len(d.logs) : ImportLogAccepts(d.logs[i]),
      data |-> [StripEach(d) EXCEPT !.has = AppDataKeys]]

\* A text is [form, base64, value]: form "json" for the JSON text of the
\* object value, "other" for a text that is no JSON; base64 tells that the
\* text is the base64 encoding of such a text.
NoText == [form |-> "other", base64 |-> FALSE, value |-> defaultData]

\* JSON.stringify: a Date becomes its ISO string
Stringify(data) ==
  [form |-> "json", base64 |-> FALSE,
   value |-> [data EXCEPT
                !.habits = [i \in 1..Len(data.habits) |->
                              [data.habits[i] EXCEPT !.createdAt = ToIsoString(@)]],
                !.logs = [i \in 1..Len(data.logs) |->
                            [data.logs[i] EXCEPT !.loggedAt = ToIsoString(@)]],
                !.lastTrainingDate = ToIsoString(@)]]

\* btoa throws on a character outside Latin-1
BtoaThrows(text) ==
  \E i \in 1..Len(text.value.habits) :
     ~text.value.habits[i].name.latin1 \/ ~text.value.habits[i].category.latin1

\* encryptData (lines 15-26)
encryptData(hasWin, text) ==
  IF ~hasWin \/ BtoaThrows(text) THEN text ELSE [text EXCEPT !.base64 = TRUE]

\* decryptData (lines 29-53): a text of base64 characters goes through atob,
\* any other text is returned as it is
decryptData(hasWin, text) ==
  IF hasWin /\ text.base64 THEN [text EXCEPT !.base64 = FALSE] ELSE text

\* JSON.parse throws
ParseThrows(text) == text.form # "json" \/ text.base64

\* What running a function makes: whether it threw, the value it returned,
\* whether it called localStorage.setItem with success, and the item under
\* STORAGE_KEY afterwards ([present, text]).
Returned(value, item) == [threw |-> FALSE, value |-> value, wrote |-> FALSE, item |-> item]
Threw(value, item) == [threw |-> TRUE, value |-> value, wrote |-> FALSE, item |-> item]

\* safeExecute (error-handling, ml-models.ts lines 554-566)
safeExecute(outcome, fallback) ==
  IF outcome.threw THEN [outcome EXCEPT !.threw = FALSE, !.value = fallback] ELSE outcome

\* loadData (lines 55-91)
loadData(hasWin, item) ==
  IF ~hasWin THEN Returned(defaultData, item)
  ELSE safeExecute(
    IF ~item.present THEN Returned(defaultData, item)
    ELSE LET decrypted == decryptData(hasWin, item.text)
             validation == validateAppData(decrypted.value)
             d == validation.data
         IN IF ParseThrows(decrypted) THEN Threw(defaultData, item)
            ELSE IF ~validation.success THEN Returned(defaultData, item)
            ELSE Returned(
              [d EXCEPT
                 !.habits = [i \in 1..Len(d.habits) |->
                               [d.habits[i] EXCEPT !.createdAt = NewDate(@)]],
                 !.logs = [i \in 1..Len(d.logs) |->
                             [d.logs[i] EXCEPT !.loggedAt = NewDate(@)]],
                 !.lastTrainingDate =
                    IF "lastTrainingDate" \in d.has THEN NewDate(@) ELSE NoDateValue],
              item),
    defaultData)

\* A variant of saveData that stores the data before it validates them.
saveData_WriteFirst(hasWin, item, data, setItemThrows) ==
  IF ~hasWin THEN Returned(FALSE, item)
  ELSE safeExecute(
    IF setItemThrows THEN Threw(FALSE, item)
    ELSE LET written == [present |-> TRUE,
                         text |-> encryptData(hasWin, Stringify(
                                    [data EXCEPT !.has = @ \cup {"_version", "_timestamp"}]))]
         IN IF ~validateAppData(data).success
            THEN [Threw(FALSE, written) EXCEPT !.wrote = TRUE]
            ELSE [Returned(TRUE, written) EXCEPT !.wrote = TRUE],
    FALSE)

\* saveData (lines 93-115)
saveData(hasWin, item, data, setItemThrows) ==
  IF ~hasWin THEN Returned(FALSE, item)
  ELSE safeExecute(
    IF ~validateAppData(data).success THEN Threw(FALSE, item)
    ELSE IF setItemThrows THEN Threw(FALSE, item)
    ELSE [Returned(TRUE,
                   [present |-> TRUE,
                    text |-> encryptData(hasWin, Stringify(
                               [data EXCEPT !.has = @ \cup {"_version", "_timestamp"}]))])
            EXCEPT !.wrote = TRUE],
    FALSE)

\* importData (lines 129-160)
importData(hasWin, item, jsonString, setItemThrows) ==
  safeExecute(
    IF ParseThrows(jsonString) THEN Threw(defaultData, item)
    ELSE LET parsed == jsonString.value
             validation == validateImportData(parsed)
             v == validation.data
             data == [v EXCEPT
                        !.has = AppDataKeys \cup (parsed.has \cap {"lastTrainingDate"}),
                        !.habits = [i \in 1..Len(v.habits) |->
                                      [v.habits[i] EXCEPT !.createdAt =
                                         IF @.isDate THEN @ ELSE NewDate(@)]],
                        !.logs = [i \in 1..Len(v.logs) |->
                                    [v.logs[i] EXCEPT !.loggedAt =
                                       IF @.isDate THEN @ ELSE NewDate(@)]],
                        !.lastTrainingDate =
                           IF "lastTrainingDate" \in parsed.has
                           THEN NewDate(parsed.lastTrainingDate) ELSE NoDateValue]
             saved == saveData(hasWin, item, data, setItemThrows)
         IN IF ~validation.success THEN Threw(defaultData, item)
            ELSE IF ~saved.value
            THEN [Threw(defaultData, saved.item) EXCEPT !.wrote = saved.wrote]
            ELSE [Returned(data, saved.item) EXCEPT !.wrote = saved.wrote],
    defaultData)

\* clearAllData (lines 163-170)
clearAllData(hasWin, item) ==
  IF ~hasWin THEN Returned(FALSE, item)
  ELSE Returned(TRUE, [present |-> FALSE, text |-> NoText])

\* ---------------------------------------------------- use-habit-data.ts
\* formatDate(new Date()): the day of the instant, in UTC (habit-utils
\* getTodayString)
getTodayString(now) == now \div HoursPerDay

\* generateId returns a string that no earlier call has returned: the n-th
\* call returns the n-th of these
GeneratedIds == <<"id1", "id2", "id3", "id4", "id5", "id6", "id7", "id8">>

\* the index findIndex returns (line 60), 0 for -1
RECURSIVE FindLog(_, _, _, _)
FindLog(ls, habitId, today, i) ==
  IF i > Len(ls) THEN 0
  ELSE IF ls[i].habitId = habitId /\ ls[i].date = today THEN i
  ELSE FindLog(ls, habitId, today, i + 1)

ContextKeys == {"mood", "sleepHours", "energyLevel", "stressLevel", "weather"}

\* the keys of contextData that hold a value
Supplied(contextData) ==
  {k \in {"mood", "weather"} : contextData[k] # Undefined}
    \cup {k \in {"sleepHours", "energyLevel", "stressLevel"} : contextData[k] # UndefinedNum}

\* the log of lines 67-76: the fields of the existing log, then completed,
\* the five contextual fields and loggedAt
UpdatedLog(log, completed, contextData, now) ==
  [log EXCEPT !.has = (@ \ ContextKeys) \cup Supplied(contextData),
              !.completed = completed,
              !.mood = contextData.mood,
              !.sleepHours = contextData.sleepHours,
              !.energyLevel = contextData.energyLevel,
              !.stressLevel = contextData.stressLevel,
              !.weather = contextData.weather,
              !.loggedAt = [isDate |-> TRUE, time |-> now]]

\* the log of lines 79-90
NewLog(id, habitId, today, completed, contextData, now) ==
  [has |-> LogKeys \cup Supplied(contextData),
   id |-> id, habitId |-> habitId, date |-> today, completed |-> completed,
   mood |-> contextData.mood, sleepHours |-> contextData.sleepHours,
   energyLevel |-> contextData.energyLevel, stressLevel |-> contextData.stressLevel,
   weather |-> contextData.weather, loggedAt |-> [isDate |-> TRUE, time |-> now]]

\* A variant of logHabit that appends a log whatever the array holds.
logHabit_AlwaysAppends(ls, habitId, completed, contextData, now, id) ==
  Append(ls, NewLog(id, habitId, getTodayString(now), completed, contextData, now))

\* newLogs of logHabit (lines 59-92)
logHabit(ls, habitId, completed, contextData, now, id) ==
  LET today == getTodayString(now)
      existingLogIndex == FindLog(ls, habitId, today, 1)
  IN IF existingLogIndex # 0
     THEN [ls EXCEPT ![existingLogIndex] = UpdatedLog(@, completed, contextData, now)]
     ELSE Append(ls, NewLog(id, habitId, today, completed, contextData, now))

\* ---------------------------------------------------------------- inputs
Health == <<72, 101, 97, 108, 116, 104>>   \* the char codes of "Health"
Learning == <<76, 101, 97, 114, 110, 105, 110, 103>>   \* the char codes of "Learning"

\* a Habit record (types/habit.ts)
Habit(id, category, preferredTime, createdAt, isActive) ==
  [id |-> id, name |-> id, category |-> category, preferredTime |-> preferredTime,
   createdAt |-> createdAt, isActive |-> isActive]

DateAt(hours) == [isDate |-> TRUE, time |-> hours]

\* a HabitLog record (types/habit.ts) without contextual fields
HabitLog(habitId, date, completed) ==
  [habitId |-> habitId, date |-> date, completed |-> completed,
   mood |-> Undefined, sleepHours |-> UndefinedNum, energyLevel |-> UndefinedNum,
   stressLevel |-> UndefinedNum, weather |-> Undefined]

HabitIds == {"h1", "h2"}

StatsHabits ==
  <<Habit("h1", Health, "morning", DateAt(0), TRUE),
    Habit("h2", Learning, "anytime", DateAt(0), TRUE)>>

\* Date.now(): midnight of the last day, or the afternoon two days later
NowChoices == {HoursPerDay * MaxDay, HoursPerDay * (MaxDay + 2) + 13}

NoStats == [valid |-> FALSE, of |-> <<>>]
NoData == [valid |-> FALSE, threw |-> FALSE, samples |-> <<>>]

HasLog(allLogs, h, d) == \E i \in 1..Len(allLogs) : allLogs[i].habitId = h /\ allLogs[i].date = d

\* ------------------------------------- specification of the statistics
NoOut == [valid |-> FALSE, model |-> "", x |-> <<>>, value |-> Zero]

NoTrain == [valid |-> FALSE, threw |-> FALSE, nLogs |-> 0, nSamples |-> 0,
            trainSamples |-> <<>>, testSamples |-> <<>>]
NoPredictions == [valid |-> FALSE, isTrained |-> FALSE, list |-> <<>>]

\* the singleton of line 186, before any call
EngineIdle ==
  /\ modelState = Untrained(0)
  /\ performanceReport = NullReport
  /\ trainOut = NoTrain
  /\ predictionsOut = NoPredictions

\* nothing handed to ModelEvaluator yet
NoMetrics == [valid |-> FALSE]
NoAuc == [valid |-> FALSE, value |-> Zero]
NoScores == [valid |-> FALSE]
NoCurve == [valid |-> FALSE, oracle |-> <<>>, points |-> <<>>]
NoQuality == [valid |-> FALSE, threw |-> FALSE]

EvalIdle ==
  /\ outcomes = <<>>
  /\ metricsOut = NoMetrics
  /\ aucOut = NoAuc
  /\ evalData = <<>>
  /\ cvOut = NoScores
  /\ curveOut = NoCurve
  /\ qualityOut = NoQuality

\* an empty localStorage and no storage call yet
NoItem == [present |-> FALSE, text |-> NoText]
NoCall == [valid |-> FALSE, threw |-> FALSE, wrote |-> FALSE, unchanged |-> TRUE]
NoSave == [call |-> NoCall, value |-> FALSE, data |-> defaultData]
NoLoad == [call |-> NoCall, value |-> defaultData]
NoImport == [call |-> NoCall, value |-> defaultData, jsonString |-> NoText]

StorageIdle ==
  /\ stored = NoItem
  /\ hasWindow = TRUE
  /\ quotaExceeded = FALSE
  /\ saveOut = NoSave
  /\ loadOut = NoLoad
  /\ importOut = NoImport

\* the useState initial values of usePredictions (lines 8-17)
EmptyPredictions == [today |-> <<>>, tomorrow |-> <<>>]
NoRun == [valid |-> FALSE, habits |-> <<>>, logs |-> <<>>, threw |-> FALSE,
          predictions |-> EmptyPredictions]

HookIdle ==
  /\ predictions = EmptyPredictions
  /\ isTraining = FALSE
  /\ hookModelState = Untrained(0)
  /\ lastTrainingDate = NoDate
  /\ pending = <<>>
  /\ runOut = NoRun

ModelsIdle ==
  /\ mlSet = <<>>
  /\ logisticRegression = NewLogisticRegression
  /\ decisionTree = NewDecisionTree(EngineMaxDepth, EngineMinSamples)
  /\ mlOut = NoOut
  /\ EngineIdle

InitStats ==
  /\ habits = StatsHabits
  /\ logs = <<>>
  /\ nowHours \in NowChoices
  /\ statsOut = NoStats
  /\ trainingData = NoData
  /\ ModelsIdle
  /\ HookIdle
  /\ EvalIdle
  /\ StorageIdle

\* the caller puts one more log into the array it will pass: any habit, any
\* day not logged yet for that habit, in any order
GivenLog(h, d, c) ==
  /\ Len(logs) < MaxLogs
  /\ ~HasLog(logs, h, d)
  /\ logs' = Append(logs, HabitLog(h, d, c))
  /\ statsOut' = NoStats
  /\ trainingData' = NoData
  /\ UNCHANGED <<habits, nowHours>>
  /\ UNCHANGED modelVars
  /\ UNCHANGED engineVars
  /\ UNCHANGED hookVars
  /\ UNCHANGED evalVars
  /\ UNCHANGED storageVars

CallCalculateHabitStats ==
  /\ statsOut' = [valid |-> TRUE,
                  of |-> [h \in HabitIds |-> calculateHabitStats(h, logs, nowHours)]]
  /\ UNCHANGED <<habits, logs, nowHours, trainingData>>
  /\ UNCHANGED modelVars
  /\ UNCHANGED engineVars
  /\ UNCHANGED hookVars
  /\ UNCHANGED evalVars
  /\ UNCHANGED storageVars

CallCreateTrainingData ==
  /\ trainingData' = [valid |-> TRUE] @@ createTrainingData(habits, logs, nowHours)
  /\ UNCHANGED <<habits, logs, nowHours, statsOut>>
  /\ UNCHANGED modelVars
  /\ UNCHANGED engineVars
  /\ UNCHANGED hookVars
  /\ UNCHANGED evalVars
  /\ UNCHANGED storageVars

NextStats ==
  \/ \E h \in HabitIds, d \in 1..MaxDay, c \in BOOLEAN : GivenLog(h, d, c)
  \/ CallCalculateHabitStats
  \/ CallCreateTrainingData

SpecStats == InitStats /\ [][NextStats]_vars


\* ------------------------------------------ specification of the two models
FeatVals == {Frac(0, 1), Frac(1, 1), Frac(2, 1)}

\* the vectors handed to predict: of the trained length, shorter and longer
ProbeVectors == {<<>>, <<One, One>>} \cup {<<v>> : v \in FeatVals}

DataIdle ==
  /\ habits = <<>>
  /\ logs = <<>>
  /\ nowHours = 0
  /\ statsOut = NoStats
  /\ trainingData = NoData

InitModels == DataIdle /\ ModelsIdle /\ HookIdle /\ EvalIdle /\ StorageIdle

\* the caller adds a sample to the set it will train on
GivenSample(v, y) ==
  /\ Len(mlSet) < MaxSamples
  /\ mlSet' = Append(mlSet, [x |-> <<v>>, y |-> y])
  /\ mlOut' = NoOut
  /\ UNCHANGED <<logisticRegression, decisionTree>>
  /\ UNCHANGED dataVars
  /\ UNCHANGED engineVars
  /\ UNCHANGED hookVars
  /\ UNCHANGED evalVars
  /\ UNCHANGED storageVars

\* train on the caller's samples, or train([], [])
CallLRTrain(sampleSet) ==
  /\ logisticRegression' = LRTrain(logisticRegression, sampleSet)
  /\ mlOut' = NoOut
  /\ UNCHANGED <<mlSet, decisionTree>>
  /\ UNCHANGED dataVars
  /\ UNCHANGED engineVars
  /\ UNCHANGED hookVars
  /\ UNCHANGED evalVars
  /\ UNCHANGED storageVars

CallDTTrain(sampleSet) ==
  /\ decisionTree' = DTTrain(decisionTree, sampleSet)
  /\ mlOut' = NoOut
  /\ UNCHANGED <<mlSet, logisticRegression>>
  /\ UNCHANGED dataVars
  /\ UNCHANGED engineVars
  /\ UNCHANGED hookVars
  /\ UNCHANGED evalVars
  /\ UNCHANGED storageVars

CallLRPredict(x) ==
  /\ mlOut' = [valid |-> TRUE, model |-> "lr", x |-> x,
               value |-> LRPredict(logisticRegression, x)]
  /\ UNCHANGED <<mlSet, logisticRegression, decisionTree>>
  /\ UNCHANGED dataVars
  /\ UNCHANGED engineVars
  /\ UNCHANGED hookVars
  /\ UNCHANGED evalVars
  /\ UNCHANGED storageVars

CallDTPredict(x) ==
  /\ mlOut' = [valid |-> TRUE, model |-> "dt", x |-> x,
               value |-> DTPredict(decisionTree, x)]
  /\ UNCHANGED <<mlSet, logisticRegression, decisionTree>>
  /\ UNCHANGED dataVars
  /\ UNCHANGED engineVars
  /\ UNCHANGED hookVars
  /\ UNCHANGED evalVars
  /\ UNCHANGED storageVars

NextModels ==
  \/ \E v \in FeatVals, y \in {0, 1} : GivenSample(v, y)
  \/ \E sampleSet \in {mlSet, <<>>} : CallLRTrain(sampleSet)
  \/ \E sampleSet \in {mlSet, <<>>} : CallDTTrain(sampleSet)
  \/ \E x \in ProbeVectors : CallLRPredict(x)
  \/ \E x \in ProbeVectors : CallDTPredict(x)

SpecModels == InitModels /\ [][NextModels]_vars


\* --------------------------------- specification of the DecisionTree alone
\* a column of a feature matrix of four samples, and the four labels
TreeColumns ==
  {<<<<0, 0, 1, 1>>, <<1, 1, 1, 1>>>>, <<<<0, 1, 0, 1>>, <<0, 0, 1, 1>>>>,
   <<<<0, 1, 1, 2>>, <<3, 1, 2, 0>>>>, <<<<0, 1, 2, 3>>, <<0, 0, 1, 1>>>>}

TreeLabels == {<<a, b, c, d>> : a \in {0, 1}, b \in {0, 1}, c \in {0, 1}, d \in {0, 1}}

\* the samples of the matrix with the columns c[1] and c[2]
TreeSamples(c, labels) ==
  [i \in 1..Len(labels) |-> [x |-> <<Frac(c[1][i], 1), Frac(c[2][i], 1)>>, y |-> labels[i]]]

\* the arguments of new DecisionTree(maxDepth, minSamples)
TreeSettings == {<<0, 2>>, <<1, 2>>, <<5, 2>>, <<5, 3>>}

InitTree == DataIdle /\ ModelsIdle /\ HookIdle /\ EvalIdle /\ StorageIdle

\* new DecisionTree(maxDepth, minSamples), and the samples the caller will
\* hand to it
NewTreeAndSamples(maxDepth, minSamples, sampleSet) ==
  /\ decisionTree' = NewDecisionTree(maxDepth, minSamples)
  /\ mlSet' = sampleSet
  /\ mlOut' = NoOut
  /\ UNCHANGED logisticRegression
  /\ UNCHANGED dataVars
  /\ UNCHANGED engineVars
  /\ UNCHANGED hookVars
  /\ UNCHANGED evalVars
  /\ UNCHANGED storageVars

NextTree ==
  \/ \E t \in TreeSettings, c \in TreeColumns, labels \in TreeLabels :
       NewTreeAndSamples(t[1], t[2], TreeSamples(c, labels))
  \/ \E sampleSet \in {mlSet, <<>>} : CallDTTrain(sampleSet)
  \/ \E x \in {<<Zero, Zero>>, <<Frac(3, 10), Frac(3, 2)>>} : CallDTPredict(x)

SpecTree == InitTree /\ [][NextTree]_vars

\* --------------------------------------- specification of PredictionEngine
\* the habit lists and log arrays the application hands to the engine.
\* Habits: A = active, I = inactive, B = active with a createdAt that is not
\* a Date (parsed from JSON and not revived).
A1 == Habit("h1", Health, "morning", DateAt(0), TRUE)
A2 == Habit("h2", Learning, "evening", DateAt(0), TRUE)
I2 == Habit("h2", Learning, "evening", DateAt(0), FALSE)
B2 == Habit("h2", Learning, "evening", [isDate |-> FALSE, time |-> 0], TRUE)

EngineHabitLists == {<<>>, <<A1>>, <<A1, A2>>, <<A2, A1>>, <<A1, I2>>, <<A1, B2>>}

\* every third day is a day the habit was not completed
CompletedOn(d) == d % 3 # 0

\* n1 logs of h1 on days 1..n1 followed by n2 logs of h2 on days 1..n2
LogsOf(n1, n2) ==
  [i \in 1..n1 |-> HabitLog("h1", i, CompletedOn(i))]
  \o [i \in 1..n2 |-> HabitLog("h2", i, CompletedOn(i))]

EngineLogArrays ==
  {LogsOf(c[1], c[2]) : c \in {<<0, 0>>, <<4, 0>>, <<9, 0>>, <<10, 0>>,
                               <<5, 5>>, <<10, 3>>, <<0, 10>>}}

\* Date.now() while the engine is used: the afternoon after the last log day
EngineNow == HoursPerDay * (minLogsForML + 1) + 13

InitEngine ==
  /\ habits = <<>>
  /\ logs = <<>>
  /\ nowHours = EngineNow
  /\ statsOut = NoStats
  /\ trainingData = NoData
  /\ ModelsIdle
  /\ HookIdle
  /\ EvalIdle
  /\ StorageIdle

\* the application's data changes
SetHabits(hs) ==
  /\ habits' = hs
  /\ predictionsOut' = NoPredictions
  /\ UNCHANGED <<logs, nowHours, statsOut, trainingData>>
  /\ UNCHANGED modelVars
  /\ UNCHANGED <<modelState, performanceReport, trainOut>>
  /\ UNCHANGED hookVars
  /\ UNCHANGED evalVars
  /\ UNCHANGED storageVars

SetLogs(ls) ==
  /\ logs' = ls
  /\ predictionsOut' = NoPredictions
  /\ UNCHANGED <<habits, nowHours, statsOut, trainingData>>
  /\ UNCHANGED modelVars
  /\ UNCHANGED <<modelState, performanceReport, trainOut>>
  /\ UNCHANGED hookVars
  /\ UNCHANGED evalVars
  /\ UNCHANGED storageVars

\* predictionEngine.train(habits, logs)
CallTrain ==
  \E r \in {train(logisticRegression, decisionTree, modelState, performanceReport,
                  habits, logs, nowHours)} :
     /\ logisticRegression' = r.logisticRegression
     /\ decisionTree' = r.decisionTree
     /\ modelState' = r.modelState
     /\ performanceReport' = r.performanceReport
     /\ trainOut' = [valid |-> TRUE, threw |-> r.threw, nLogs |-> Len(logs),
                     nSamples |-> r.nSamples,
                     trainSamples |-> r.trainSamples, testSamples |-> r.testSamples]
     /\ UNCHANGED <<mlSet, mlOut, predictionsOut>>
     /\ UNCHANGED hookVars
     /\ UNCHANGED evalVars
     /\ UNCHANGED storageVars
     /\ UNCHANGED dataVars

\* predictionEngine.predictForDate(habits, logs, targetDate)
CallPredictForDate(targetHours) ==
  /\ predictionsOut' = [valid |-> TRUE, isTrained |-> modelState.isTrained,
                        list |-> predictForDate(habits, logs, targetHours, nowHours, modelState)]
  /\ UNCHANGED <<modelState, performanceReport, trainOut>>
  /\ UNCHANGED hookVars
  /\ UNCHANGED evalVars
  /\ UNCHANGED storageVars
  /\ UNCHANGED modelVars
  /\ UNCHANGED dataVars

NextEngine ==
  \/ \E hs \in EngineHabitLists : SetHabits(hs)
  \/ \E ls \in EngineLogArrays : SetLogs(ls)
  \/ CallTrain
  \/ \E t \in {nowHours, nowHours + HoursPerDay} : CallPredictForDate(t)

SpecEngine == InitEngine /\ [][NextEngine]_vars


\* ------------------------------------------ specification of usePredictions
\* the props the component passes to the hook
HookHabitLists == {<<>>, <<I2>>, <<A1, I2>>, <<A1, B2>>}
HookLogArrays == {LogsOf(4, 0), LogsOf(10, 3)}

TopCount == 3    \* getTopPredictions(habits, logs, 3)

\* the component mounts with no data: the first trainAndPredict takes the
\* habits.length === 0 branch, which sets the initial values again
InitHook ==
  /\ habits = <<>>
  /\ logs = <<>>
  /\ nowHours = EngineNow
  /\ statsOut = NoStats
  /\ trainingData = NoData
  /\ ModelsIdle
  /\ HookIdle
  /\ EvalIdle
  /\ StorageIdle

\* trainAndPredict up to its await (lines 20-30), on the habits and logs of
\* the render that created the callback
BeginTrainAndPredict(hs, ls) ==
  IF Len(hs) = 0
  THEN /\ predictions' = EmptyPredictions
       /\ hookModelState' = Untrained(0)
       /\ UNCHANGED <<isTraining, pending>>
  ELSE /\ Len(pending) < MaxPending
       /\ isTraining' = TRUE
       /\ pending' = Append(pending, [habits |-> hs, logs |-> ls])
       /\ UNCHANGED <<predictions, hookModelState>>

\* the component renders with new habits or logs; the effect of lines 48-50
\* calls the new trainAndPredict
Render(hs, ls) ==
  /\ habits' = hs
  /\ logs' = ls
  /\ BeginTrainAndPredict(hs, ls)
  /\ UNCHANGED <<lastTrainingDate, runOut>>
  /\ UNCHANGED evalVars
  /\ UNCHANGED storageVars
  /\ UNCHANGED <<nowHours, statsOut, trainingData>>
  /\ UNCHANGED modelVars
  /\ UNCHANGED engineVars

\* the caller uses the retrain function the hook returns (line 73)
Retrain ==
  /\ BeginTrainAndPredict(habits, logs)
  /\ UNCHANGED <<lastTrainingDate, runOut>>
  /\ UNCHANGED evalVars
  /\ UNCHANGED storageVars
  /\ UNCHANGED dataVars
  /\ UNCHANGED modelVars
  /\ UNCHANGED engineVars

\* checkForRetraining (lines 54-63) at an hour when a day has passed since
\* the last training
CheckForRetraining ==
  /\ lastTrainingDate # NoDate
  /\ BeginTrainAndPredict(habits, logs)
  /\ UNCHANGED <<lastTrainingDate, runOut>>
  /\ UNCHANGED evalVars
  /\ UNCHANGED storageVars
  /\ UNCHANGED dataVars
  /\ UNCHANGED modelVars
  /\ UNCHANGED engineVars

\* the timeout of the oldest waiting run fires: the rest of trainAndPredict
\* (lines 32-44) on the singleton engine
ResumeTrainAndPredict ==
  /\ pending # <<>>
  /\ \E run \in {Head(pending)} :
     \E r \in {train(logisticRegression, decisionTree, modelState, performanceReport,
                      run.habits, run.logs, nowHours)} :
     \E set \in {IF r.threw
                  THEN EmptyPredictions
                  ELSE getTopPredictions(run.habits, run.logs, TopCount, nowHours,
                                         r.modelState)} :
        /\ logisticRegression' = r.logisticRegression
        /\ decisionTree' = r.decisionTree
        /\ modelState' = r.modelState
        /\ performanceReport' = r.performanceReport
        /\ predictions' = set
        /\ hookModelState' = IF r.threw THEN Untrained(Len(run.logs)) ELSE r.modelState
        /\ lastTrainingDate' = IF r.threw THEN lastTrainingDate ELSE nowHours
        /\ runOut' = [valid |-> TRUE, habits |-> run.habits, logs |-> run.logs,
                      threw |-> r.threw, predictions |-> set]
  /\ isTraining' = FALSE
  /\ pending' = Tail(pending)
  /\ UNCHANGED <<mlSet, mlOut, trainOut, predictionsOut>>
  /\ UNCHANGED evalVars
  /\ UNCHANGED storageVars
  /\ UNCHANGED dataVars

NextHook ==
  \/ \E hs \in HookHabitLists, ls \in HookLogArrays : Render(hs, ls)
  \/ Retrain
  \/ CheckForRetraining
  \/ ResumeTrainAndPredict

SpecHook == InitHook /\ [][NextHook]_vars

\* the step that takes the oldest waiting run out of pending: it is a step
\* of ResumeTrainAndPredict, and possible whenever a run waits
OldestRunResumes == pending # <<>> /\ pending' = Tail(pending)

\* the timeout of line 30 fires 100 ms after it was set
SpecHookFair == SpecHook /\ WF_pending(OldestRunResumes)

\* ---------------------------- specification of the metrics of ModelEvaluator
\* the probabilities a model reports
ProbVals == {Frac(1, 5), Frac(1, 2), Frac(4, 5)}

Field(s, f) == [i \in 1..Len(s) |-> s[i][f]]

InitMetrics ==
  /\ DataIdle
  /\ ModelsIdle
  /\ HookIdle
  /\ EvalIdle
  /\ StorageIdle

\* the caller puts one more (prediction, actual, probability) into its arrays
GivenOutcome(pred, actual, prob) ==
  /\ Len(outcomes) < MaxOutcomes
  /\ outcomes' = Append(outcomes, [pred |-> pred, actual |-> actual, prob |-> prob])
  /\ metricsOut' = NoMetrics
  /\ aucOut' = NoAuc
  /\ UNCHANGED <<evalData, cvOut, curveOut, qualityOut>>
  /\ UNCHANGED dataVars
  /\ UNCHANGED modelVars
  /\ UNCHANGED engineVars
  /\ UNCHANGED hookVars
  /\ UNCHANGED storageVars

\* ModelEvaluator.calculateMetrics(predictions, actuals, probabilities), the
\* probabilities given in full or left empty
CallCalculateMetrics(withProbabilities) ==
  /\ metricsOut' = [valid |-> TRUE,
                    m |-> calculateMetrics(Field(outcomes, "pred"), Field(outcomes, "actual"),
                                           IF withProbabilities
                                           THEN Field(outcomes, "prob") ELSE <<>>)]
  /\ aucOut' = NoAuc
  /\ UNCHANGED <<outcomes, evalData, cvOut, curveOut, qualityOut>>
  /\ UNCHANGED dataVars
  /\ UNCHANGED modelVars
  /\ UNCHANGED engineVars
  /\ UNCHANGED hookVars
  /\ UNCHANGED storageVars

\* ModelEvaluator.calculateROCAUC(actuals, probabilities)
CallCalculateROCAUC ==
  /\ aucOut' = [valid |-> TRUE,
                value |-> calculateROCAUC(Field(outcomes, "actual"), Field(outcomes, "prob"))]
  /\ metricsOut' = NoMetrics
  /\ UNCHANGED <<outcomes, evalData, cvOut, curveOut, qualityOut>>
  /\ UNCHANGED dataVars
  /\ UNCHANGED modelVars
  /\ UNCHANGED engineVars
  /\ UNCHANGED hookVars
  /\ UNCHANGED storageVars

NextMetrics ==
  \/ \E pred \in {0, 1}, actual \in {0, 1}, prob \in ProbVals : GivenOutcome(pred, actual, prob)
  \/ \E withProbabilities \in BOOLEAN : CallCalculateMetrics(withProbabilities)
  \/ CallCalculateROCAUC

SpecMetrics == InitMetrics /\ [][NextMetrics]_vars

\* ------------------- specification of the validation runs of ModelEvaluator
\* the sample sets: n samples of one feature, labelled after one of three
\* patterns
EvalSizes == {1, 3, 5, 10, 13}
LabelPatterns == {"ones", "alternating", "thirds"}

LabelAt(pattern, i) ==
  IF pattern = "ones" THEN 1
  ELSE IF pattern = "alternating" THEN i % 2
  ELSE IF CompletedOn(i) THEN 1 ELSE 0

EvalSamples(n, pattern) ==
  [i \in 1..n |-> [x |-> <<Frac(i % 3, 1)>>, y |-> LabelAt(pattern, i)]]

\* the probabilities a fitted LogisticRegression gives to the feature values
LRValues == {Frac(1, 5), Frac(4, 5)}
\* sigmoid(w * x + b) is monotone in x
LROracles ==
  {o \in [FeatVals -> LRValues] :
     \/ FracLE(o[Frac(0, 1)], o[Frac(1, 1)]) /\ FracLE(o[Frac(1, 1)], o[Frac(2, 1)])
     \/ FracLE(o[Frac(2, 1)], o[Frac(1, 1)]) /\ FracLE(o[Frac(1, 1)], o[Frac(0, 1)])}

FoldChoices == {3, 5}

InitValidation ==
  /\ DataIdle
  /\ ModelsIdle
  /\ HookIdle
  /\ EvalIdle
  /\ StorageIdle

\* the caller has another training set
SetEvalData(n, pattern) ==
  /\ evalData' = EvalSamples(n, pattern)
  /\ cvOut' = NoScores
  /\ curveOut' = NoCurve
  /\ UNCHANGED <<outcomes, metricsOut, aucOut, qualityOut>>
  /\ UNCHANGED dataVars
  /\ UNCHANGED modelVars
  /\ UNCHANGED engineVars
  /\ UNCHANGED hookVars
  /\ UNCHANGED storageVars

\* ModelEvaluator.performCrossValidation(features, labels, folds)
CallPerformCrossValidation(folds, oracle) ==
  /\ evalData # <<>>
  /\ \E r \in {performCrossValidation(evalData, folds, oracle)} :
       cvOut' = [valid |-> TRUE, folds |-> folds, scores |-> r]
  /\ UNCHANGED <<outcomes, metricsOut, aucOut, evalData, curveOut, qualityOut>>
  /\ UNCHANGED dataVars
  /\ UNCHANGED modelVars
  /\ UNCHANGED engineVars
  /\ UNCHANGED hookVars
  /\ UNCHANGED storageVars

\* ModelEvaluator.generateLearningCurve(features, labels)
CallGenerateLearningCurve(oracle) ==
  /\ evalData # <<>>
  /\ \E r \in {generateLearningCurve(evalData, DefaultTrainSizes, oracle)} :
       curveOut' = [valid |-> TRUE, oracle |-> oracle, points |-> r]
  /\ UNCHANGED <<outcomes, metricsOut, aucOut, evalData, cvOut, qualityOut>>
  /\ UNCHANGED dataVars
  /\ UNCHANGED modelVars
  /\ UNCHANGED engineVars
  /\ UNCHANGED hookVars
  /\ UNCHANGED storageVars

NextValidation ==
  \/ \E n \in EvalSizes, pattern \in LabelPatterns : SetEvalData(n, pattern)
  \/ \E folds \in FoldChoices, oracle \in LROracles : CallPerformCrossValidation(folds, oracle)
  \/ \E oracle \in LROracles : CallGenerateLearningCurve(oracle)

SpecValidation == InitValidation /\ [][NextValidation]_vars

\* ------------------------------------- specification of assessDataQuality
\* What a log says about the day: nothing, all five contextual fields, all
\* five with the middle value of each scale, or the mood alone.
ContextKinds == {"none", "full", "middle", "moodOnly"}

WithContext(log, kind) ==
  CASE kind = "full" ->
         [log EXCEPT !.mood = "good", !.sleepHours = 8, !.energyLevel = 4,
                     !.stressLevel = 2, !.weather = "sunny"]
    [] kind = "middle" ->
         [log EXCEPT !.mood = "okay", !.sleepHours = 5, !.energyLevel = 3,
                     !.stressLevel = 3, !.weather = "cloudy"]
    [] kind = "moodOnly" -> [log EXCEPT !.mood = "great"]
    [] OTHER -> log

\* which logs say that the habit was completed
CompletionPatterns == {"thirds", "all", "lastMissed"}

CompletedIn(pattern, d, n) ==
  CASE pattern = "all" -> TRUE
    [] pattern = "lastMissed" -> d # n
    [] OTHER -> CompletedOn(d)

\* n1 logs of h1 on days 1..n1 followed by n2 logs of h2 on days 1..n2
QualityLogs(n1, n2, pattern, kind) ==
  [i \in 1..n1 |-> WithContext(HabitLog("h1", i, CompletedIn(pattern, i, n1)), kind)]
  \o [i \in 1..n2 |-> WithContext(HabitLog("h2", i, CompletedIn(pattern, i, n2)), kind)]

QualityLogArrays ==
  {QualityLogs(c[1], c[2], pattern, kind) :
     c \in {<<0, 0>>, <<1, 0>>, <<4, 1>>, <<3, 2>>},
     pattern \in CompletionPatterns, kind \in ContextKinds}

QualityHabitLists == {<<>>, <<A1>>, <<A1, A2>>, <<A1, B2>>}

InitQuality ==
  /\ habits = <<>>
  /\ logs = <<>>
  /\ nowHours = EngineNow
  /\ statsOut = NoStats
  /\ trainingData = NoData
  /\ ModelsIdle
  /\ HookIdle
  /\ EvalIdle
  /\ StorageIdle

\* the application has other habits and logs
GivenQualityData(hs, ls) ==
  /\ habits' = hs
  /\ logs' = ls
  /\ qualityOut' = NoQuality
  /\ trainingData' = NoData
  /\ UNCHANGED <<nowHours, statsOut>>
  /\ UNCHANGED <<outcomes, metricsOut, aucOut, evalData, cvOut, curveOut>>
  /\ UNCHANGED modelVars
  /\ UNCHANGED engineVars
  /\ UNCHANGED hookVars
  /\ UNCHANGED storageVars

\* ModelEvaluator.assessDataQuality(habits, logs)
CallAssessDataQuality ==
  /\ \E td \in {createTrainingData(habits, logs, nowHours)} :
       /\ trainingData' = [valid |-> TRUE, threw |-> td.threw, samples |-> td.samples]
       /\ qualityOut' = [valid |-> TRUE, threw |-> td.threw, q |-> assessDataQuality(td)]
  /\ UNCHANGED <<habits, logs, nowHours, statsOut>>
  /\ UNCHANGED <<outcomes, metricsOut, aucOut, evalData, cvOut, curveOut>>
  /\ UNCHANGED modelVars
  /\ UNCHANGED engineVars
  /\ UNCHANGED hookVars
  /\ UNCHANGED storageVars

NextQuality ==
  \/ \E hs \in QualityHabitLists, ls \in QualityLogArrays : GivenQualityData(hs, ls)
  \/ CallAssessDataQuality

SpecQuality == InitQuality /\ [][NextQuality]_vars

\* ----------------------------- specification of the encoded feature vector
\* when a habit was created: before every log date, at noon of day 1, or at
\* the start of day 3
CreationTimes == {0, HoursPerDay + 12, HoursPerDay * 3}

CreatedAt(habit, hours) == [habit EXCEPT !.createdAt = DateAt(hours)]

FeatureHabitLists ==
  {<<CreatedAt(A1, t)>> : t \in CreationTimes}
    \cup {<<CreatedAt(A1, t1), CreatedAt(A2, t2)>> : t1 \in CreationTimes, t2 \in CreationTimes}

InitFeatures ==
  /\ habits = <<>>
  /\ logs = <<>>
  /\ nowHours = EngineNow
  /\ statsOut = NoStats
  /\ trainingData = NoData
  /\ ModelsIdle
  /\ HookIdle
  /\ EvalIdle
  /\ StorageIdle

\* the application has other habits and logs
GivenFeatureData(hs, ls) ==
  /\ habits' = hs
  /\ logs' = ls
  /\ trainingData' = NoData
  /\ UNCHANGED <<nowHours, statsOut>>
  /\ UNCHANGED modelVars
  /\ UNCHANGED engineVars
  /\ UNCHANGED hookVars
  /\ UNCHANGED evalVars
  /\ UNCHANGED storageVars

NextFeatures ==
  \/ \E hs \in FeatureHabitLists, ls \in QualityLogArrays : GivenFeatureData(hs, ls)
  \/ CallCreateTrainingData

SpecFeatures == InitFeatures /\ [][NextFeatures]_vars

\* ------------------------------------------------------------ SpecStorage
\* storage.ts over one localStorage item; the data and texts are those of
\* storage-new.test.ts and their neighbours.
Str(text) == [text |-> text, length |-> Len(text), latin1 |-> TRUE]
\* a name of 101 characters, and a name with a character outside Latin-1
LongName == [text |-> "Exercise...", length |-> 101, latin1 |-> TRUE]
WideName == [text |-> "Yoga*", length |-> 5, latin1 |-> FALSE]

DateOf(t) == [isDate |-> TRUE, time |-> t]
InvalidDate == [isDate |-> TRUE, time |-> InvalidTime]

StoredHabit(id, name, category, preferredTime, createdAt, isActive) ==
  [has |-> HabitKeys, id |-> id, name |-> name, category |-> category,
   preferredTime |-> preferredTime, createdAt |-> createdAt, isActive |-> isActive]

StoredLog(id, habitId, date, completed, mood, loggedAt) ==
  [has |-> IF mood = Undefined THEN LogKeys ELSE LogKeys \cup {"mood"},
   id |-> id, habitId |-> habitId, date |-> date, completed |-> completed,
   mood |-> mood, loggedAt |-> loggedAt]

AppDataOf(hs, ls, onboarded) ==
  [has |-> AppDataKeys, habits |-> hs, logs |-> ls,
   hasCompletedOnboarding |-> onboarded, lastTrainingDate |-> NoDateValue]

Exercise == StoredHabit("1", Str("Exercise"), Str("Health"), "morning", DateOf(1), TRUE)
Read == StoredHabit("2", Str("Read"), Str("Learning"), "evening", DateOf(1), FALSE)
Log1 == StoredLog("1", "1", 1, TRUE, "good", DateOf(2))
Log2 == StoredLog("2", "1", 2, FALSE, Undefined, DateOf(3))

\* mockData (storage-new.test.ts lines 57-94)
mockData == AppDataOf(<<Exercise, Read>>, <<Log1, Log2>>, TRUE)

ValidData ==
  { AppDataOf(<<>>, <<>>, FALSE),
    AppDataOf(<<>>, <<>>, TRUE),
    AppDataOf(<<Exercise>>, <<>>, TRUE),
    AppDataOf(<<>>, <<Log2>>, FALSE),
    AppDataOf(<<Exercise>>, <<Log1>>, TRUE),
    mockData,
    [AppDataOf(<<>>, <<>>, TRUE) EXCEPT !.has = @ \cup {"lastTrainingDate"},
                                        !.lastTrainingDate = DateOf(4)],
    AppDataOf(<<[Exercise EXCEPT !.name = WideName]>>, <<>>, TRUE),
    AppDataOf(<<[Exercise EXCEPT !.has = @ \cup {"color"}]>>, <<>>, TRUE) }

\* invalidData (lines 127-131) and its neighbours
InvalidData ==
  { AppDataOf(<<[Exercise EXCEPT !.has = {"id"}]>>, <<>>, TRUE),
    AppDataOf(<<[Exercise EXCEPT !.name = Str("")]>>, <<>>, TRUE),
    AppDataOf(<<[Exercise EXCEPT !.name = LongName]>>, <<>>, TRUE),
    AppDataOf(<<[Exercise EXCEPT !.createdAt = InvalidDate]>>, <<>>, TRUE),
    AppDataOf(<<Exercise>>, <<[Log1 EXCEPT !.date = MalformedDay]>>, TRUE),
    AppDataOf(<<Exercise>>, <<[Log1 EXCEPT !.mood = "fine"]>>, TRUE) }

SaveInputs == ValidData \cup InvalidData

NotJson == [form |-> "other", base64 |-> FALSE, value |-> defaultData]
JsonOf(value) == [form |-> "json", base64 |-> FALSE, value |-> value]

\* the texts given to importData (lines 219-270)
ValidImports ==
  { Stringify([d EXCEPT !.has = @ \cup {"_exported", "_version"}]) :
      d \in {AppDataOf(<<>>, <<>>, TRUE), AppDataOf(<<Exercise>>, <<Log1>>, TRUE), mockData} }

InvalidImports ==
  { NotJson,
    JsonOf(AppDataOf(<<[Exercise EXCEPT !.has = {"name", "category"}],
                       [Exercise EXCEPT !.has = {"id"}]>>, <<>>, FALSE)),
    JsonOf(AppDataOf(<<[Exercise EXCEPT !.preferredTime = "night"]>>, <<>>, FALSE)),
    JsonOf(AppDataOf(<<[Exercise EXCEPT !.id = "", !.createdAt = ToIsoString(@)]>>, <<>>, FALSE)),
    JsonOf(AppDataOf(<<[Exercise EXCEPT !.createdAt = NoDateValue]>>, <<>>, FALSE)),
    JsonOf(AppDataOf(<<>>, <<[Log1 EXCEPT !.date = MalformedDay,
                                         !.loggedAt = ToIsoString(@)]>>, FALSE)) }

\* '{ "invalid": "data" }' (line 236)
InvalidKeyJson == JsonOf([defaultData EXCEPT !.has = {"invalid"}])

ImportInputs == ValidImports \cup InvalidImports \cup {InvalidKeyJson}

\* what another writer of the item leaves there (lines 120-121): a text that
\* is no JSON, the base64 of such a text, plain JSON from before the
\* encoding, and JSON of another shape
ForeignTexts ==
  { NotJson,
    [NotJson EXCEPT !.base64 = TRUE],
    JsonOf(AppDataOf(<<>>, <<>>, TRUE)),
    JsonOf(AppDataOf(<<[Exercise EXCEPT !.has = {"id"}]>>, <<>>, TRUE)),
    InvalidKeyJson }

CallOf(outcome, before) ==
  [valid |-> TRUE, threw |-> outcome.threw, wrote |-> outcome.wrote,
   unchanged |-> outcome.item = before]

InitStorage ==
  /\ DataIdle
  /\ ModelsIdle
  /\ HookIdle
  /\ EvalIdle
  /\ StorageIdle

\* saveData(data)
CallSaveData(data) ==
  /\ \E r \in {saveData(hasWindow, stored, data, quotaExceeded)} :
       /\ stored' = r.item
       /\ saveOut' = [call |-> CallOf(r, stored), value |-> r.value, data |-> data]
  /\ loadOut' = NoLoad
  /\ importOut' = NoImport
  /\ UNCHANGED <<hasWindow, quotaExceeded>>
  /\ UNCHANGED dataVars
  /\ UNCHANGED modelVars
  /\ UNCHANGED engineVars
  /\ UNCHANGED hookVars
  /\ UNCHANGED evalVars

\* loadData()
CallLoadData ==
  /\ \E r \in {loadData(hasWindow, stored)} :
       /\ stored' = r.item
       /\ loadOut' = [call |-> CallOf(r, stored), value |-> r.value]
  /\ UNCHANGED <<hasWindow, quotaExceeded, saveOut, importOut>>
  /\ UNCHANGED dataVars
  /\ UNCHANGED modelVars
  /\ UNCHANGED engineVars
  /\ UNCHANGED hookVars
  /\ UNCHANGED evalVars

\* importData(jsonString)
CallImportData(jsonString) ==
  /\ \E r \in {importData(hasWindow, stored, jsonString, quotaExceeded)} :
       /\ stored' = r.item
       /\ importOut' = [call |-> CallOf(r, stored), value |-> r.value,
                        jsonString |-> jsonString]
  /\ saveOut' = NoSave
  /\ loadOut' = NoLoad
  /\ UNCHANGED <<hasWindow, quotaExceeded>>
  /\ UNCHANGED dataVars
  /\ UNCHANGED modelVars
  /\ UNCHANGED engineVars
  /\ UNCHANGED hookVars
  /\ UNCHANGED evalVars

\* clearAllData()
CallClearAllData ==
  /\ stored' = clearAllData(hasWindow, stored).item
  /\ saveOut' = NoSave
  /\ loadOut' = NoLoad
  /\ importOut' = NoImport
  /\ UNCHANGED <<hasWindow, quotaExceeded>>
  /\ UNCHANGED dataVars
  /\ UNCHANGED modelVars
  /\ UNCHANGED engineVars
  /\ UNCHANGED hookVars
  /\ UNCHANGED evalVars

\* another writer sets the item: localStorage.setItem(STORAGE_KEY, text)
ForeignSetItem(text) ==
  /\ hasWindow
  /\ stored' = [present |-> TRUE, text |-> text]
  /\ saveOut' = NoSave
  /\ loadOut' = NoLoad
  /\ importOut' = NoImport
  /\ UNCHANGED <<hasWindow, quotaExceeded>>
  /\ UNCHANGED dataVars
  /\ UNCHANGED modelVars
  /\ UNCHANGED engineVars
  /\ UNCHANGED hookVars
  /\ UNCHANGED evalVars

\* the storage fills up or is freed: setItem throws or not from now on
SetQuotaExceeded(b) ==
  /\ hasWindow /\ b # quotaExceeded
  /\ quotaExceeded' = b
  /\ saveOut' = NoSave
  /\ loadOut' = NoLoad
  /\ importOut' = NoImport
  /\ UNCHANGED <<stored, hasWindow>>
  /\ UNCHANGED dataVars
  /\ UNCHANGED modelVars
  /\ UNCHANGED engineVars
  /\ UNCHANGED hookVars
  /\ UNCHANGED evalVars

\* the module runs where there is no window (server rendering), from the start
RunWithoutWindow ==
  /\ hasWindow /\ ~stored.present /\ ~quotaExceeded
  /\ ~saveOut.call.valid /\ ~loadOut.call.valid /\ ~importOut.call.valid
  /\ hasWindow' = FALSE
  /\ UNCHANGED <<stored, quotaExceeded, saveOut, loadOut, importOut>>
  /\ UNCHANGED dataVars
  /\ UNCHANGED modelVars
  /\ UNCHANGED engineVars
  /\ UNCHANGED hookVars
  /\ UNCHANGED evalVars

NextStorage ==
  \/ \E data \in SaveInputs : CallSaveData(data)
  \/ CallLoadData
  \/ \E jsonString \in ImportInputs : CallImportData(jsonString)
  \/ CallClearAllData
  \/ \E text \in ForeignTexts : ForeignSetItem(text)
  \/ \E b \in BOOLEAN : SetQuotaExceeded(b)
  \/ RunWithoutWindow

SpecStorage == InitStorage /\ [][NextStorage]_vars

\* ------------------------------------- specification of useHabitData
\* In this specification habits and logs are data.habits and data.logs of
\* the hook, nowHours is the clock and stored is the item of localStorage.
\* A handler runs on the data of the last render; the components call one
\* handler per event, and React renders between two events.
NoContext ==
  [mood |-> Undefined, sleepHours |-> UndefinedNum, energyLevel |-> UndefinedNum,
   stressLevel |-> UndefinedNum, weather |-> Undefined]
FullContext ==
  [mood |-> "good", sleepHours |-> 8, energyLevel |-> 4, stressLevel |-> 2,
   weather |-> "sunny"]

\* the first render: loadData() of an empty localStorage, the morning of day 1
InitHabitData ==
  /\ habits = <<>>
  /\ logs = <<>>
  /\ nowHours = HoursPerDay + 8
  /\ statsOut = NoStats
  /\ trainingData = NoData
  /\ ModelsIdle
  /\ HookIdle
  /\ EvalIdle
  /\ StorageIdle

\* updateData (lines 27-30): setData, then saveData
UpdateData(hs, ls) ==
  /\ habits' = hs
  /\ logs' = ls
  /\ stored' = saveData(hasWindow, stored, AppDataOf(hs, ls, FALSE), quotaExceeded).item
  /\ UNCHANGED <<nowHours, statsOut, trainingData>>
  /\ UNCHANGED <<hasWindow, quotaExceeded, saveOut, loadOut, importOut>>
  /\ UNCHANGED modelVars
  /\ UNCHANGED engineVars
  /\ UNCHANGED hookVars
  /\ UNCHANGED evalVars

\* addHabit (lines 32-49)
AddHabit(name, category, preferredTime) ==
  /\ Len(habits) < 2
  /\ UpdateData(Append(habits,
                       StoredHabit(GeneratedIds[Len(habits) + Len(logs) + 1], Str(name),
                                   Str(category), preferredTime, DateOf(nowHours), TRUE)),
                logs)

\* logHabit (lines 51-101)
LogHabit(habitId, completed, contextData) ==
  UpdateData(habits,
             logHabit(logs, habitId, completed, contextData, nowHours,
                      GeneratedIds[Len(habits) + Len(logs) + 1]))

\* eight hours pass, until the first hours of day 2
ClockAdvances ==
  /\ nowHours < HoursPerDay * 2
  /\ nowHours' = nowHours + 8
  /\ UNCHANGED <<habits, logs, statsOut, trainingData>>
  /\ UNCHANGED modelVars
  /\ UNCHANGED engineVars
  /\ UNCHANGED hookVars
  /\ UNCHANGED evalVars
  /\ UNCHANGED storageVars

NextHabitData ==
  \/ \E name \in {"Exercise", "Read"} : AddHabit(name, "Health", "morning")
  \/ \E i \in 1..Len(habits), completed \in BOOLEAN, contextData \in {NoContext, FullContext} :
       LogHabit(habits[i].id, completed, contextData)
  \/ ClockAdvances

SpecHabitData == InitHabitData /\ [][NextHabitData]_vars

\* ------------------------------------------------------------ the claims
HabitById(hs, id) == hs[CHOOSE i \in 1..Len(hs) : hs[i].id = id]

RECURSIVE LogsOnOrBefore(_, _)
LogsOnOrBefore(s, d) ==
  IF s = <<>> THEN <<>>
  ELSE IF Head(s).date <= d THEN <<Head(s)>> \o LogsOnOrBefore(Tail(s), d)
       ELSE LogsOnOrBefore(Tail(s), d)

\* the streak and success-rate features of a sample of habit h dated d when
\* only the logs dated on or before d exist
PastOnlyFeatures(h, d) ==
  LET v == encodeFeatures(extractFeatures(HabitById(habits, h), LogsOnOrBefore(logs, d),
                                          DateHours(d), nowHours))
  IN <<v[StreakIdx], v[SuccessRateIdx]>>

\* C1: every training sample built from a log of habit H dated D has the
\* streak and success-rate features that H's logs dated on or before D give:
\* logs dated after D have no influence on them.
C1_NoLookAhead ==
  (trainingData.valid /\ ~trainingData.threw) =>
    \A i \in 1..Len(trainingData.samples) :
      LET smp == trainingData.samples[i]
      IN <<smp.features[StreakIdx], smp.features[SuccessRateIdx]>>
           = PastOnlyFeatures(smp.meta.habitId, smp.meta.date)

MaxDate(s) == CHOOSE d \in {s[i].date : i \in 1..Len(s)} :
                \A j \in 1..Len(s) : s[j].date <= d

\* C9: daysSinceLastLog is the whole days elapsed since the most recent log
\* of the habit, 999 without logs, whatever the order of the log array.
C9_DaysSinceMostRecent ==
  statsOut.valid =>
    \A h \in HabitIds :
      LET hl == SelectLogs(logs, h)
      IN statsOut.of[h].daysSinceLastLog =
           IF hl = <<>> THEN NoLogSentinel
           ELSE (nowHours - DateHours(MaxDate(hl))) \div HoursPerDay

\* consecutive completed logs from the most recent one backwards, stopping at
\* the first log that is not completed or at the first missing calendar day
RECURSIVE StreakToGap(_)
StreakToGap(sortedDesc) ==
  IF sortedDesc = <<>> \/ ~Head(sortedDesc).completed THEN 0
  ELSE IF Len(sortedDesc) >= 2 /\ sortedDesc[2].date = sortedDesc[1].date - 1
       THEN 1 + StreakToGap(Tail(sortedDesc))
       ELSE 1

\* C10: currentStreak counts the completed logs from the most recent one
\* backwards up to the first failure or gap, longestStreak is the longest run
\* of completed logs in date order, and
\* currentStreak <= longestStreak <= completedLogs <= totalLogs.
C10_StreakStopsAtGap ==
  statsOut.valid =>
    \A h \in HabitIds :
      LET st == statsOut.of[h]
          sorted == SortByDateDesc(SelectLogs(logs, h))
      IN /\ st.currentStreak = StreakToGap(sorted)
         /\ st.longestStreak = LongestRun(Reverse(sorted), 0, 0)
         /\ st.currentStreak <= st.longestStreak
         /\ st.longestStreak <= st.completedLogs
         /\ st.completedLogs <= st.totalLogs

RECURSIVE LeafPath(_, _)
LeafPath(node, x) ==
  IF node.isLeaf THEN <<>>
  ELSE IF GoesLeft(x, node.featureIndex, node.threshold)
       THEN <<TRUE>> \o LeafPath(node.left, x)
       ELSE <<FALSE>> \o LeafPath(node.right, x)

RECURSIVE SamplesInLeaf(_, _, _)
SamplesInLeaf(root, ss, path) ==
  IF ss = <<>> THEN <<>>
  ELSE IF LeafPath(root, Head(ss).x) = path
       THEN <<Head(ss)>> \o SamplesInLeaf(root, Tail(ss), path)
       ELSE SamplesInLeaf(root, Tail(ss), path)

\* C8: after train on a non-empty set predict(x) returns the mean label of
\* the training samples in the leaf x is routed to (so c for single-class
\* labels c, for c = 1 and for c = 0).
C8_LeafMean ==
  (mlOut.valid /\ mlOut.model = "dt" /\ decisionTree.fit # <<>>) =>
    LET root == DTRoot(decisionTree)
        inLeaf == SamplesInLeaf(root, decisionTree.fit, LeafPath(root, mlOut.x))
    IN inLeaf # <<>> => mlOut.value = MeanLabel(inLeaf)

\* C2: isTrained is true only if the most recent train call was given at
\* least minLogsForML logs and createTrainingData produced a non-empty
\* training set; a train call with fewer logs ends with
\* {isTrained: false, totalSamples: logs.length} and does not throw.
C2_TrainedOnlyByLastTrain ==
  /\ modelState.isTrained =>
       /\ trainOut.valid /\ trainOut.nLogs >= minLogsForML
       /\ ~trainOut.threw /\ trainOut.nSamples > 0
  /\ (trainOut.valid /\ trainOut.nLogs < minLogsForML) =>
       ~trainOut.threw /\ modelState = Untrained(trainOut.nLogs)

\* C3: train never propagates an exception: whatever is raised during
\* feature extraction, fitting or evaluation is caught and the call returns
\* with isTrained false.
C3_TrainNeverThrows ==
  trainOut.valid => ~trainOut.threw

PositionOf(hs, id) == CHOOSE i \in 1..Len(hs) : hs[i].id = id

C5_TrainedUsesModels ==
  predictionsOut.valid =>
    \A j \in 1..Len(predictionsOut.list) :
      LET p == predictionsOut.list[j]
      IN (predictionsOut.isTrained /\ Len(SelectLogs(logs, p.habitId)) >= minLogsForML)
           <=> p.explanation[1] # HeuristicPrefix

\* C6: when the habit list of a trainAndPredict run holds an active habit,
\* the run leaves a non-empty prediction list for today and for tomorrow,
\* also when training failed or threw.
C6_PredictionsWheneverActive ==
  (runOut.valid /\ ActiveHabits(runOut.habits) # <<>>) =>
    /\ runOut.predictions.today # <<>>
    /\ runOut.predictions.tomorrow # <<>>

\* C11: the encoded feature vector of a (habit, logs, date) triple is the
\* same whenever it is computed: it depends neither on the wall-clock time
\* of the call nor on the order of the logs array.
C11_EncodingDeterministic ==
  (trainingData.valid /\ ~trainingData.threw) =>
    \A i \in 1..Len(trainingData.samples) :
      \A now \in NowChoices :
        \A ls \in {logs, Reverse(logs)} :
          LET smp == trainingData.samples[i]
          IN smp.features =
               encodeFeatures(extractFeatures(HabitById(habits, smp.meta.habitId), ls,
                                              DateHours(smp.meta.date), now))

PairCount(p, a) ==
  Cardinality({i \in 1..Len(outcomes) : outcomes[i].pred = p /\ outcomes[i].actual = a})

\* C12: for prediction and actual arrays of one length over {0, 1} the four
\* confusion-matrix counts are the counts of the direct comparison and sum to
\* the input length, accuracy is (TP + TN) / N, and the positive and negative
\* support sum to N.
C12_ConfusionMatrixSums ==
  metricsOut.valid =>
    LET cm == metricsOut.m.confusionMatrix
        report == metricsOut.m.classificationReport
        N == Len(outcomes)
    IN /\ cm.truePositive = PairCount(1, 1)
       /\ cm.trueNegative = PairCount(0, 0)
       /\ cm.falsePositive = PairCount(1, 0)
       /\ cm.falseNegative = PairCount(0, 1)
       /\ cm.truePositive + cm.trueNegative + cm.falsePositive + cm.falseNegative = N
       /\ metricsOut.m.accuracy = FracDiv(Num(cm.truePositive + cm.trueNegative), Num(N))
       /\ report.positive.support + report.negative.support = N

\* metrics of three samples with a hit, a false alarm and a miss
C12_Witness ==
  /\ metricsOut.valid
  /\ Len(outcomes) = MaxOutcomes
  /\ metricsOut.m.confusionMatrix.truePositive >= 1
  /\ metricsOut.m.confusionMatrix.falsePositive >= 1
  /\ metricsOut.m.confusionMatrix.falseNegative >= 1

InUnitInterval(x) == IsFinite(x) /\ FracLE(Zero, x) /\ FracLE(x, One)

\* C13: calculateMetrics never returns NaN: accuracy, precision, recall, F1
\* and the negative-class, macro and weighted figures lie in [0, 1], also
\* when a denominator is 0 and when the input is empty.
C13_MetricsNeverNaN ==
  metricsOut.valid =>
    LET m == metricsOut.m
        report == m.classificationReport
    IN /\ InUnitInterval(m.accuracy)
       /\ InUnitInterval(m.precision) /\ InUnitInterval(m.recall)
       /\ InUnitInterval(m.f1Score)
       /\ \A part \in {"positive", "negative", "macro", "weighted"} :
            /\ InUnitInterval(report[part].precision)
            /\ InUnitInterval(report[part].recall)
            /\ InUnitInterval(report[part].f1Score)

Orderings(n) == {f \in [1..n -> 1..n] : \A i, j \in 1..n : f[i] = f[j] => i = j}

BothClasses(s) ==
  /\ \E i \in 1..Len(s) : s[i].actual = 1
  /\ \E i \in 1..Len(s) : s[i].actual = 0

\* C14: calculateROCAUC is 1 when both classes are present and every
\* positive has a strictly higher probability than every negative, 1/2 when
\* the actuals hold one class, 1/2 when both classes are present and all
\* probabilities are equal, and the same for every ordering of the samples.
C14_RocAuc ==
  aucOut.valid =>
    /\ ~BothClasses(outcomes) => aucOut.value = Half
    /\ ( /\ BothClasses(outcomes)
         /\ \A i, j \in 1..Len(outcomes) :
              (outcomes[i].actual = 1 /\ outcomes[j].actual = 0)
                => FracLT(outcomes[j].prob, outcomes[i].prob) )
         => aucOut.value = One
    /\ ( /\ BothClasses(outcomes)
         /\ \A i, j \in 1..Len(outcomes) : outcomes[i].prob = outcomes[j].prob )
         => aucOut.value = Half
    /\ \A f \in Orderings(Len(outcomes)) :
         LET permuted == [i \in 1..Len(outcomes) |-> outcomes[f[i]]]
         IN calculateROCAUC(Field(permuted, "actual"), Field(permuted, "prob")) = aucOut.value

\* a positive and a negative share a probability and a third sample has
\* another one
C14_Witness ==
  /\ aucOut.valid
  /\ \E i, j, k \in 1..Len(outcomes) :
       /\ outcomes[i].actual = 1 /\ outcomes[j].actual = 0
       /\ outcomes[i].prob = outcomes[j].prob
       /\ outcomes[k].prob # outcomes[i].prob

\* C15: performCrossValidation returns exactly k scores for each of
\* logistic, tree and ensemble, every score a number of [0, 1], for every
\* non-empty sample set, also one with fewer than k samples.
C15_CrossValidationScores ==
  cvOut.valid =>
    \A which \in {"logistic", "tree", "ensemble"} :
      /\ Len(cvOut.scores[which]) = cvOut.folds
      /\ \A f \in 1..Len(cvOut.scores[which]) : InUnitInterval(cvOut.scores[which][f])

\* the fractions for which a point is due: floor(f * N) >= 10 and both sides
\* of the 80/20 split non-empty
RECURSIVE DueSizes(_, _)
DueSizes(n, fractions) ==
  IF fractions = <<>> THEN <<>>
  ELSE LET size == (n * Head(fractions).num) \div Head(fractions).den
           fitted == (size * 4) \div 5
       IN (IF size >= 10 /\ fitted > 0 /\ fitted < size THEN <<size>> ELSE <<>>)
          \o DueSizes(n, Tail(fractions))

\* C16: generateLearningCurve emits one point per listed fraction f in the
\* listed order, skipping f exactly when floor(f * N) < 10 or a side of the
\* 80/20 split is empty; a point has trainSize = floor(f * N), is computed
\* from the first floor(f * N) samples only (first 80% fitted, rest
\* validated), and its two scores lie in [0, 1].
C16_LearningCurvePoints ==
  curveOut.valid =>
    LET points == curveOut.points
    IN /\ Field(points, "trainSize") = DueSizes(Len(evalData), DefaultTrainSizes)
       /\ \A i \in 1..Len(points) :
            LET size == points[i].trainSize
                first == SubSeq(evalData, 1, size)
                fitted == SubSeq(first, 1, (size * 4) \div 5)
                validated == SubSeq(first, (size * 4) \div 5 + 1, size)
            IN /\ InUnitInterval(points[i].trainScore)
               /\ InUnitInterval(points[i].valScore)
               /\ <<points[i]>> = generateLearningCurve(first, <<One>>, curveOut.oracle)
               /\ points[i].trainScore = ScoreOf(fitted, fitted, curveOut.oracle, "ensemble")
               /\ points[i].valScore = ScoreOf(fitted, validated, curveOut.oracle, "ensemble")

\* a curve of two points over 13 samples: four fractions were skipped
C16_Witness ==
  /\ curveOut.valid
  /\ Len(evalData) = 13
  /\ Len(curveOut.points) = 2
  /\ curveOut.points[1].trainSize = 10

\* C17: train fits both models on the first floor(0.8 * N) samples of the
\* training set and evaluates them on the remaining ones; the two slices are
\* disjoint and chronological: no sample of the fitting slice has a log date
\* later than the log date of a sample of the test slice.
C17_ChronologicalSplit ==
  (trainOut.valid /\ ~trainOut.threw /\ trainOut.nSamples > 0) =>
    LET fitting == trainOut.trainSamples
        testing == trainOut.testSamples
    IN /\ Len(fitting) = (trainOut.nSamples * 8) \div 10
       /\ Len(fitting) + Len(testing) = trainOut.nSamples
       /\ fitting # <<>> => decisionTree.fit = AsSampleSet(fitting)
       /\ \A i \in 1..Len(fitting) : \A j \in 1..Len(testing) :
            fitting[i].meta.date <= testing[j].meta.date

\* 0.5 + 0.4 * (successRate - 0.5) + 0.3 * min(streak / 7, 1)
\*     - 0.3 * min(daysSinceLastLog / 7, 1)
HeuristicFormula(stats) ==
  FracSub(FracAdd(FracAdd(Half, FracMul(Frac(4, 10), FracSub(stats.successRate, Half))),
                  FracMul(Frac(3, 10), FracMin(Frac(stats.currentStreak, 7), One))),
          FracMul(Frac(3, 10), FracMin(Frac(stats.daysSinceLastLog, 7), One)))

\* C18: in the full engine the heuristic probability is the formula above
\* clamped to [0.1, 0.9]: every heuristic Prediction has
\* 0.1 <= probability <= 0.9, a habit without logs gets 0.1.
C18_HeuristicClamped ==
  predictionsOut.valid =>
    \A j \in 1..Len(predictionsOut.list) :
      LET p == predictionsOut.list[j]
          stats == calculateHabitStats(p.habitId, logs, nowHours)
      IN p.explanation[1] = HeuristicPrefix =>
           /\ p.probability = FracMax(Frac(1, 10), FracMin(Frac(9, 10), HeuristicFormula(stats)))
           /\ FracLE(Frac(1, 10), p.probability)
           /\ FracLE(p.probability, Frac(9, 10))

\* the habits and logs of a and of b are the same, key by key, over the keys
\* of the schemas, and all their createdAt and loggedAt are Date objects
SameHabitsAndLogs(a, b) ==
  /\ Len(a.habits) = Len(b.habits)
  /\ Len(a.logs) = Len(b.logs)
  /\ \A i \in 1..Len(a.habits) :
       /\ StripHabit(a.habits[i]) = StripHabit(b.habits[i])
       /\ IsValidDate(a.habits[i].createdAt)
  /\ \A i \in 1..Len(a.logs) :
       /\ StripLog(a.logs[i]) = StripLog(b.logs[i])
       /\ IsValidDate(a.logs[i].loggedAt)

\* C19: after saveData(data) returned true, or importData accepted its text
\* and returned the imported data, the next loadData returns the same habits
\* and logs, with createdAt and loggedAt as Date objects of the saved
\* instants.
C19_SaveLoadRoundTrip ==
  loadOut.call.valid =>
    /\ (saveOut.call.valid /\ saveOut.value) => SameHabitsAndLogs(loadOut.value, saveOut.data)
    /\ (importOut.call.valid /\ importOut.call.wrote) =>
         SameHabitsAndLogs(loadOut.value, importOut.value)

\* the part of C19 that the code keeps: the round trip of data without
\* habits and logs, and the flag hasCompletedOnboarding of any data
C19_EmptyRoundTrip ==
  (loadOut.call.valid /\ saveOut.call.valid /\ saveOut.value
     /\ saveOut.data.habits = <<>> /\ saveOut.data.logs = <<>>
     /\ "lastTrainingDate" \notin saveOut.data.has) =>
    /\ loadOut.value.habits = <<>> /\ loadOut.value.logs = <<>>
    /\ loadOut.value.hasCompletedOnboarding = saveOut.data.hasCompletedOnboarding

\* what the code does instead: data with a habit, a log or a
\* lastTrainingDate come back as the default data
C19_LoadsDefault ==
  (loadOut.call.valid /\ saveOut.call.valid /\ saveOut.value
     /\ (saveOut.data.habits # <<>> \/ saveOut.data.logs # <<>>
           \/ "lastTrainingDate" \in saveOut.data.has)) =>
    loadOut.value = defaultData

\* the call returned without an exception and without a change to the item
NothingWritten(call) == ~call.threw /\ ~call.wrote /\ call.unchanged

\* the item is missing, cannot be decoded to JSON, or holds JSON that the
\* schema of the application data rejects
Unloadable(item) ==
  \/ ~item.present
  \/ ParseThrows(decryptData(hasWindow, item.text))
  \/ ~validateAppData(decryptData(hasWindow, item.text).value).success

\* the text is no JSON, or JSON that the schema of imports rejects
Unimportable(text) == ParseThrows(text) \/ ~validateImportData(text.value).success

C20_ImportWitness ==
  /\ importOut.call.valid /\ ~importOut.call.wrote /\ stored.present
  /\ ~ParseThrows(importOut.jsonString)

\* the samples the last assessDataQuality call was made on
QualitySamples == trainingData.samples

\* the five contextual slots of a vector hold the defaults of a missing
\* value: mood 0.5, sleep 0.75, energy 0.5, stress 0.5, weather all zero
DefaultSlots(x) ==
  (IF x[6] = Half THEN 1 ELSE 0) + (IF x[7] = Frac(3, 4) THEN 1 ELSE 0)
  + (IF x[8] = Half THEN 1 ELSE 0) + (IF x[9] = Half THEN 1 ELSE 0)
  + (IF \A i \in 10..13 : x[i] = Zero THEN 1 ELSE 0)

RECURSIVE DefaultSlotCount(_)
DefaultSlotCount(samples) ==
  IF samples = <<>> THEN 0
  ELSE DefaultSlots(Head(samples).features) + DefaultSlotCount(Tail(samples))

Supplies(log, field) ==
  IF field \in {"mood", "weather"} THEN log[field] # Undefined ELSE log[field] # UndefinedNum

ContextFields == {"mood", "sleepHours", "energyLevel", "stressLevel", "weather"}

\* C21: missingValueRate is the fraction of the contextual slots (mood,
\* sleep, energy, stress, weather) of all samples that hold their missing
\* default; it is 0 when every log supplies all five contextual fields and
\* 1 when no log supplies any of them.
C21_MissingValueRate ==
  (qualityOut.valid /\ ~qualityOut.threw /\ QualitySamples # <<>>) =>
    /\ qualityOut.q.missingValueRate =
         Frac(DefaultSlotCount(QualitySamples), 5 * Len(QualitySamples))
    /\ (\A i \in 1..Len(logs) : \A f \in ContextFields : Supplies(logs[i], f))
         => qualityOut.q.missingValueRate = Zero
    /\ (\A i \in 1..Len(logs) : \A f \in ContextFields : ~Supplies(logs[i], f))
         => qualityOut.q.missingValueRate = One

\* what the code computes instead: the share of the eight positions 5..12
\* that are exactly 0.5, so 3/8 when nothing is supplied
C21_CountsHalves ==
  (qualityOut.valid /\ ~qualityOut.threw /\ QualitySamples # <<>>) =>
    /\ qualityOut.q.missingValueRate =
         Frac(MissingCount(QualitySamples), 8 * Len(QualitySamples))
    /\ (\A i \in 1..Len(logs) : \A f \in ContextFields : ~Supplies(logs[i], f))
         => qualityOut.q.missingValueRate = Frac(3, 8)

\* C22: the outlier rate is the 1.5 x IQR rule on the success-rate column of
\* the samples, the column encodeFeatures fills with successRate;
\* totalSamples and classBalance are the size and the label counts of
\* createTrainingData(habits, logs).
C22_OutliersOfSuccessRate ==
  (qualityOut.valid /\ ~qualityOut.threw) =>
    LET td == createTrainingData(habits, logs, nowHours)
        n == Len(td.samples)
    IN /\ qualityOut.q.totalSamples = n
       /\ qualityOut.q.classBalance.positive = CountLabel(td.samples, 1)
       /\ qualityOut.q.classBalance.negative = CountLabel(td.samples, 0)
       /\ n > 0 => qualityOut.q.outlierRate =
            OutlierRate([i \in 1..n |-> td.samples[i].features[SuccessRateIdx]])

\* the part of C22 the code keeps, and the column it reads: the streak
C22_OutliersOfStreak ==
  (qualityOut.valid /\ ~qualityOut.threw) =>
    LET td == createTrainingData(habits, logs, nowHours)
        n == Len(td.samples)
    IN /\ qualityOut.q.totalSamples = n
       /\ qualityOut.q.classBalance.positive = CountLabel(td.samples, 1)
       /\ qualityOut.q.classBalance.negative = CountLabel(td.samples, 0)
       /\ n > 0 => qualityOut.q.outlierRate =
            OutlierRate([i \in 1..n |-> td.samples[i].features[StreakIdx]])

\* the two sides of the split of an internal node
LeftOf(node, ss) == SelectSide(ss, node.featureIndex, node.threshold, TRUE)
RightOf(node, ss) == SelectSide(ss, node.featureIndex, node.threshold, FALSE)

\* the weighted Gini impurity of the split of an internal node
SplitGini(node, ss) ==
  Frac(Len(LeftOf(node, ss)) * calculateGini(LeftOf(node, ss)).num
         * calculateGini(RightOf(node, ss)).den
       + Len(RightOf(node, ss)) * calculateGini(RightOf(node, ss)).num
         * calculateGini(LeftOf(node, ss)).den,
       Len(ss) * calculateGini(LeftOf(node, ss)).den * calculateGini(RightOf(node, ss)).den)

RECURSIVE EverySplitImproves(_, _)
EverySplitImproves(node, ss) ==
  \/ node.isLeaf
  \/ /\ FracLT(SplitGini(node, ss), calculateGini(ss))
     /\ EverySplitImproves(node.left, LeftOf(node, ss))
     /\ EverySplitImproves(node.right, RightOf(node, ss))

\* the tree of a trained DecisionTree
Trained == decisionTree.fit # <<>>

\* C23: buildTree makes a node a leaf whenever no valid split has a weighted
\* Gini impurity strictly below the impurity of the node: in the tree train
\* built, the split of every internal node lowers the impurity of its samples.
C23_SplitsOnlyWhenImpurityDrops ==
  Trained => EverySplitImproves(DTRoot(decisionTree), decisionTree.fit)

\* C23, the example of the claim: features [[0],[0],[1],[1]] with the labels
\* [0,1,0,1] make a single leaf.
C23_ExampleIsOneLeaf ==
  (Trained /\ \A i \in 1..Len(decisionTree.fit) :
                 /\ decisionTree.fit[i].x[1] = Frac(<<0, 0, 1, 1>>[i], 1)
                 /\ decisionTree.fit[i].x[2] = One
                 /\ decisionTree.fit[i].y = <<0, 1, 0, 1>>[i])
    => DTRoot(decisionTree).isLeaf

\* what buildTree does in place of C23: a node that may be split is a leaf
\* only when no threshold leaves samples on both sides
RECURSIVE SplitsWheneverValid(_, _, _, _)
SplitsWheneverValid(node, ss, depth, dt) ==
  IF node.isLeaf
  THEN \/ depth >= dt.maxDepth \/ Len(ss) < dt.minSamples \/ SingleClass(ss)
       \/ \A f \in 1..Len(ss[1].x), i \in 1..Len(ss), j \in 1..Len(ss) :
            ss[i].x[f] = ss[j].x[f]
  ELSE /\ SplitsWheneverValid(node.left, LeftOf(node, ss), depth + 1, dt)
       /\ SplitsWheneverValid(node.right, RightOf(node, ss), depth + 1, dt)

C23_SplitsWheneverValid ==
  Trained => SplitsWheneverValid(DTRoot(decisionTree), decisionTree.fit, 0, decisionTree)

\* the values of a feature column
ColumnValues(ss, f) == {ss[k].x[f] : k \in 1..Len(ss)}

\* the midpoints between two consecutive distinct values of a column
DistinctMidpoints(ss, f) ==
  {FracMul(FracAdd(a, b), Half) : <<a, b>> \in
     {p \in ColumnValues(ss, f) \X ColumnValues(ss, f) :
        /\ FracLT(p[1], p[2])
        /\ ~\E c \in ColumnValues(ss, f) : FracLT(p[1], c) /\ FracLT(c, p[2])}}

\* the midpoints between two neighbours of the sorted column, equal or not,
\* that leave samples on both sides
NeighbourMidpoints(ss, f) ==
  DistinctMidpoints(ss, f) \cup
    {a \in ColumnValues(ss, f) :
       /\ \E i \in 1..Len(ss), j \in 1..Len(ss) : i # j /\ ss[i].x[f] = a /\ ss[j].x[f] = a
       /\ \E c \in ColumnValues(ss, f) : FracLT(a, c)}

SplitAt(f, t) == [featureIndex |-> f, threshold |-> t]

\* findBestSplit returns the first split of lowest weighted Gini impurity among
\* the splits of candidates(ss, f), in the order of feature, then threshold
IsFirstBestOf(b, ss, candidates(_, _)) ==
  LET all == {c \in (1..Len(ss[1].x)) \X UNION {candidates(ss, f) : f \in 1..Len(ss[1].x)} :
                c[2] \in candidates(ss, c[1])}
  IN /\ b.found <=> all # {}
     /\ b.found =>
          /\ <<b.featureIndex, b.threshold>> \in all
          /\ LeftOf(b, ss) # <<>> /\ RightOf(b, ss) # <<>>
          /\ b.gini = SplitGini(b, ss)
          /\ \A c \in all :
               /\ FracLE(b.gini, SplitGini(SplitAt(c[1], c[2]), ss))
               /\ SplitGini(SplitAt(c[1], c[2]), ss) = b.gini =>
                    \/ c[1] > b.featureIndex
                    \/ c[1] = b.featureIndex /\ FracLE(b.threshold, c[2])

\* buildTree calls findBestSplit on the samples train was given
SplitsRoot ==
  /\ Trained
  /\ 0 < decisionTree.maxDepth
  /\ Len(decisionTree.fit) >= decisionTree.minSamples
  /\ ~SingleClass(decisionTree.fit)

\* C24: findBestSplit considers only the midpoints between two consecutive
\* distinct values of a sorted feature column; it returns the split of lowest
\* weighted Gini impurity among them, the first found in feature, then
\* ascending threshold order on a tie, never one with an empty side, and null
\* only when there is no valid split.
C24_BestSplitOfDistinctMidpoints ==
  SplitsRoot => IsFirstBestOf(findBestSplit(decisionTree.fit), decisionTree.fit, DistinctMidpoints)

\* what findBestSplit does in place of C24: the midpoint of two equal
\* neighbours, the value itself, is a candidate too
C24_BestSplitOfNeighbourMidpoints ==
  SplitsRoot => IsFirstBestOf(findBestSplit(decisionTree.fit), decisionTree.fit, NeighbourMidpoints)

\* the positions of the samples an internal node sends left and right
GoLeft(node, ss) ==
  {i \in 1..Len(ss) : FracLE(ss[i].x[node.featureIndex], node.threshold)}
GoRight(node, ss) ==
  {i \in 1..Len(ss) : FracLT(node.threshold, ss[i].x[node.featureIndex])}

OneLabel(ss) == \A i \in 1..Len(ss), j \in 1..Len(ss) : ss[i].y = ss[j].y

\* the shape of the subtree of a node at a depth, built from the samples ss
RECURSIVE WellShaped(_, _, _, _)
WellShaped(node, ss, depth, dt) ==
  /\ ss # <<>>
  /\ depth <= dt.maxDepth
  /\ (Len(ss) < dt.minSamples \/ OneLabel(ss)) => node.isLeaf
  /\ IF node.isLeaf
     THEN node.prediction = Frac(Cardinality({i \in 1..Len(ss) : ss[i].y = 1}), Len(ss))
     ELSE /\ GoLeft(node, ss) # {} /\ GoRight(node, ss) # {}
          /\ GoLeft(node, ss) \cap GoRight(node, ss) = {}
          /\ GoLeft(node, ss) \cup GoRight(node, ss) = 1..Len(ss)
          /\ Len(LeftOf(node, ss)) = Cardinality(GoLeft(node, ss))
          /\ Len(RightOf(node, ss)) = Cardinality(GoRight(node, ss))
          /\ WellShaped(node.left, LeftOf(node, ss), depth + 1, dt)
          /\ WellShaped(node.right, RightOf(node, ss), depth + 1, dt)

\* C25: train ends with a tree no deeper than maxDepth, in which every
\* internal node has two children built from non-empty subsets that partition
\* its samples, and every node with fewer than minSamples samples or a single
\* label is a leaf.
C25_TreeIsWellShaped ==
  Trained => WellShaped(DTRoot(decisionTree), decisionTree.fit, 0, decisionTree)

\* a trained tree two levels deep: the root and a child of it are split, and
\* a node below holds fewer than minSamples samples
C25_Witness ==
  /\ Trained
  /\ decisionTree.minSamples = 3
  /\ ~DTRoot(decisionTree).isLeaf
  /\ \/ ~DTRoot(decisionTree).left.isLeaf
     \/ ~DTRoot(decisionTree).right.isLeaf
  /\ mlOut.valid

\* the positions of the samples fold tests, fold counted from 0
TestPositions(n, folds, fold) == (TestStart(n, folds, fold) + 1)..TestEnd(n, folds, fold)

\* the samples at the positions from i on that are not in skipped
RECURSIVE Outside(_, _, _)
Outside(samples, skipped, i) ==
  IF i > Len(samples) THEN <<>>
  ELSE (IF i \in skipped THEN <<>> ELSE <<samples[i]>>) \o Outside(samples, skipped, i + 1)

\* the score of a model fitted on trainSet alone, counted over testSet
FreshScore(trainSet, testSet, oracle, which) ==
  LET lr == LRTrain(NewLogisticRegression, trainSet)
      root == DTRoot(DTTrain(NewDecisionTree(EngineMaxDepth, EngineMinSamples), trainSet))
      correct == {i \in 1..Len(testSet) :
                    VotesFor(lr, root, testSet[i].x, oracle)[which] = testSet[i].y}
  IN FracDiv(Num(Cardinality(correct)), Num(Len(testSet)))

\* C26: the k test slices of performCrossValidation are contiguous, pairwise
\* disjoint and cover every sample exactly once, the last fold taking the
\* remainder; the training set of a fold is the samples outside its test
\* slice in their order; the scores of a fold come from models fitted on that
\* training set alone.
C26_FoldsPartitionSamples ==
  cvOut.valid =>
    LET n == Len(evalData)
        k == cvOut.folds
    IN /\ TestStart(n, k, 0) = 0
       /\ TestEnd(n, k, k - 1) = n
       /\ \A f \in 0..(k - 2) : TestEnd(n, k, f) = TestStart(n, k, f + 1)
       /\ \A f \in 0..(k - 1) : TestStart(n, k, f) <= TestEnd(n, k, f)
       /\ \A i \in 1..n : Cardinality({f \in 0..(k - 1) : i \in TestPositions(n, k, f)}) = 1
       /\ \A f \in 0..(k - 1) :
            /\ TestSlice(evalData, k, f)
                 = [i \in 1..Cardinality(TestPositions(n, k, f)) |->
                      evalData[TestStart(n, k, f) + i]]
            /\ TrainSlice(evalData, k, f) = Outside(evalData, TestPositions(n, k, f), 1)
       /\ \E oracle \in LROracles :
            \A which \in {"logistic", "tree", "ensemble"}, f \in 0..(k - 1) :
              cvOut.scores[which][f + 1]
                = FreshScore(Outside(evalData, TestPositions(n, k, f), 1),
                             TestSlice(evalData, k, f), oracle, which)

\* a cross-validation whose last fold takes a remainder, and one of a set
\* smaller than the number of folds
C26_Witness ==
  /\ cvOut.valid
  /\ cvOut.folds = 5
  /\ Len(evalData) = 13

\* C27: after any sequence of train calls getPerformanceReport() is non-null
\* only while getModelState().isTrained is true, and is then the report of the
\* train call that made that state; a call that ends untrained leaves no
\* earlier report behind.
C27_ReportOnlyWhileTrained ==
  ~performanceReport.isNull =>
    /\ modelState.isTrained
    /\ performanceReport.totalSamples = modelState.totalSamples

\* the part of C27 that train keeps: while isTrained is true the report is
\* the one of the call that trained
C27_TrainedHasItsReport ==
  modelState.isTrained =>
    /\ ~performanceReport.isNull
    /\ performanceReport.totalSamples = modelState.totalSamples

\* the habit of a sample was created after the date of its log
BeforeCreation(smp) ==
  DateHours(smp.meta.date) < HabitById(habits, smp.meta.habitId).createdAt.time

\* C28: encodeFeatures(extractFeatures(habit, logs, targetDate)) has 19
\* components, each a finite number of [0, 1], also for a target date before
\* the instant the habit was created.
C28_VectorInUnitInterval ==
  (trainingData.valid /\ ~trainingData.threw) =>
    \A i \in 1..Len(trainingData.samples) :
      /\ Len(trainingData.samples[i].features) = 19
      /\ \A j \in 1..Len(trainingData.samples[i].features) :
           InUnitInterval(trainingData.samples[i].features[j])

\* the part of C28 that the encoding keeps: 19 components, and numbers of
\* [0, 1] for a target date that is not before the creation of the habit
C28_InUnitIntervalFromCreation ==
  (trainingData.valid /\ ~trainingData.threw) =>
    \A i \in 1..Len(trainingData.samples) :
      /\ Len(trainingData.samples[i].features) = 19
      /\ \A j \in 1..Len(trainingData.samples[i].features) :
           \/ InUnitInterval(trainingData.samples[i].features[j])
           \/ j = 18 /\ BeforeCreation(trainingData.samples[i])

\* at most one log per (habitId, date)
OneLogPerDay(ls) ==
  \A i \in 1..Len(ls), j \in 1..Len(ls) :
    (ls[i].habitId = ls[j].habitId /\ ls[i].date = ls[j].date) => i = j

\* the log at position i was logged again today: the array differs at i
\* only, and there in completed, the contextual fields and loggedAt only
LoggedAgain(i) ==
  /\ Len(logs') = Len(logs)
  /\ \A j \in 1..Len(logs) : j # i => logs'[j] = logs[j]
  /\ logs[i].date = nowHours \div HoursPerDay
  /\ logs'[i].id = logs[i].id
  /\ logs'[i].habitId = logs[i].habitId
  /\ logs'[i].date = logs[i].date
  /\ logs'[i].loggedAt.time = nowHours

\* a first log of the day was appended
LoggedFirst ==
  /\ Len(logs') = Len(logs) + 1
  /\ SubSeq(logs', 1, Len(logs)) = logs
  /\ logs'[Len(logs')].date = nowHours \div HoursPerDay
  /\ \A j \in 1..Len(logs) :
       ~(logs[j].habitId = logs'[Len(logs')].habitId /\ logs[j].date = logs'[Len(logs')].date)

\* C29: a logHabit call leaves at most one log per (habitId, date): a habit
\* logged today already has that log replaced in place, with its id kept, a
\* first log of the day is appended, and neither another log nor the habit
\* list changes.
C29_OneLogPerHabitAndDay ==
  [][logs' # logs =>
       /\ habits' = habits
       /\ OneLogPerDay(logs')
       /\ LoggedFirst \/ \E i \in 1..Len(logs) : LoggedAgain(i)]_vars

\* a habit was logged again after another log had been appended behind its
\* log, and its log holds what the second call was given
C29_Witness ==
  \E i \in 1..Len(logs), j \in 1..Len(logs) :
    /\ i < j
    /\ logs[i].loggedAt.time > logs[j].loggedAt.time
    /\ logs[i].completed /\ logs[i].mood = "good"
    /\ ~logs[j].completed

\* C30: isTraining is true whenever a trainAndPredict run is in flight, also
\* when runs overlap, and becomes false only when the last run in flight
\* has finished.
C30_TrainingWhileRunInFlight == pending # <<>> => isTraining

\* the part of C30 that the hook keeps: isTraining is true only while a run
\* is in flight, and under SpecHookFair every run in flight reaches its
\* finally block, which sets isTraining to false
C30_TrainingOnlyWhileRunInFlight == isTraining => pending # <<>>

C30_RunsFinish == (pending # <<>>) ~> ~isTraining

====
